---- MODULE Spec2Model ----
(***************************************************************************)
(* A model of the rasterboy software rasterizer (Namr/rasterboy).          *)
(*                                                                         *)
(* Numeric conventions.  An f32 is modelled as an extended rational: a     *)
(* finite value is an exact fraction n/d in lowest terms, and the IEEE-754 *)
(* special values NaN, +Inf and -Inf follow the IEEE rules for arithmetic  *)
(* and comparison.  Rounding to 24 bits of mantissa and the sign of zero   *)
(* are not modelled; the square root is taken to one decimal digit.  An    *)
(* i32 keeps its width: overflowing i32 arithmetic is detected and either  *)
(* panics (overflow checks on) or wraps modulo 2^32 (overflow checks off). *)
(***************************************************************************)
EXTENDS Integers, Sequences, FiniteSets, TLC

\* ------------------------------------------------------------------------
\* f32 as an extended rational
\* ------------------------------------------------------------------------

Abs(n) == IF n < 0 THEN -n ELSE n

RECURSIVE Gcd(_, _)
Gcd(a, b) == IF b = 0 THEN a ELSE Gcd(b, a % b)

\* The finite value n/d (d # 0), in lowest terms with a positive denominator.
Fin(n, d) ==
    [k |-> "fin",
     n |-> (IF d < 0 THEN -1 ELSE 1) * (n \div Gcd(Abs(n), Abs(d))),
     d |-> Abs(d) \div Gcd(Abs(n), Abs(d))]

Int2F(n) == [k |-> "fin", n |-> n, d |-> 1]
NaN      == [k |-> "nan", n |-> 0, d |-> 1]
PInf     == [k |-> "inf", n |-> 1, d |-> 1]
NInf     == [k |-> "inf", n |-> -1, d |-> 1]
\* f32::MAX: larger than every finite value the model computes, below +Inf.
F32_MAX  == [k |-> "max", n |-> 1, d |-> 1]
Zero     == Int2F(0)
One      == Int2F(1)
Half     == Fin(1, 2)
\* f32::EPSILON = 2^-23
F32_EPSILON == Fin(1, 8388608)

IsNaN(a)    == a.k = "nan"
IsFinite(a) == a.k = "fin"
Sign(n)     == IF n > 0 THEN 1 ELSE IF n < 0 THEN -1 ELSE 0
Inf(s)      == IF s < 0 THEN NInf ELSE PInf

FNeg(a) == IF a.k = "nan" THEN NaN ELSE [a EXCEPT !.n = -a.n]

FAdd(a, b) ==
    IF a.k = "nan" \/ b.k = "nan" THEN NaN
    ELSE IF a.k = "fin" /\ b.k = "fin" THEN
        Fin(a.n * (b.d \div Gcd(a.d, b.d)) + b.n * (a.d \div Gcd(a.d, b.d)),
            (a.d \div Gcd(a.d, b.d)) * b.d)
    ELSE IF a.k = "fin" THEN b
    ELSE IF b.k = "fin" THEN a
    ELSE IF a.n = b.n THEN a ELSE NaN

FSub(a, b) == FAdd(a, FNeg(b))

FMul(a, b) ==
    IF a.k = "nan" \/ b.k = "nan" THEN NaN
    ELSE IF a.k = "fin" /\ b.k = "fin" THEN
        Fin((a.n \div Gcd(Abs(a.n), b.d)) * (b.n \div Gcd(Abs(b.n), a.d)),
            (a.d \div Gcd(Abs(b.n), a.d)) * (b.d \div Gcd(Abs(a.n), b.d)))
    ELSE IF a.n = 0 \/ b.n = 0 THEN NaN
    ELSE Inf(Sign(a.n) * Sign(b.n))

FDiv(a, b) ==
    IF a.k = "nan" \/ b.k = "nan" THEN NaN
    ELSE IF a.k = "fin" /\ b.k = "fin" THEN
        IF b.n = 0 THEN (IF a.n = 0 THEN NaN ELSE Inf(Sign(a.n)))
        ELSE Fin((a.n \div Gcd(Abs(a.n), Abs(b.n))) * (b.d \div Gcd(a.d, b.d)),
                 (a.d \div Gcd(a.d, b.d)) * (b.n \div Gcd(Abs(a.n), Abs(b.n))))
    ELSE IF a.k = "fin" THEN Zero
    ELSE IF b.k = "fin" THEN Inf(Sign(a.n) * (IF b.n < 0 THEN -1 ELSE 1))
    ELSE NaN

\* Position of a non-NaN value among the classes -Inf < finite < MAX < +Inf.
Rank(a) == IF a.k = "fin" THEN 0
           ELSE IF a.k = "max" THEN 1
           ELSE IF a.n < 0 THEN -2 ELSE 2

\* n1/d1 < n2/d2 for positive denominators, by comparing integer parts and
\* then the reciprocals of the fractional parts (no cross product is formed).
RECURSIVE RatLt(_, _, _, _)
RatLt(n1, d1, n2, d2) ==
    IF n1 \div d1 # n2 \div d2 THEN n1 \div d1 < n2 \div d2
    ELSE IF n2 % d2 = 0 THEN FALSE
    ELSE IF n1 % d1 = 0 THEN TRUE
    ELSE RatLt(d2, n2 % d2, d1, n1 % d1)

FLt(a, b) ==
    IF a.k = "nan" \/ b.k = "nan" THEN FALSE
    ELSE IF a.k = "fin" /\ b.k = "fin" THEN RatLt(a.n, a.d, b.n, b.d)
    ELSE Rank(a) < Rank(b)

FEq(a, b) == a.k # "nan" /\ b.k # "nan" /\ a = b
FLe(a, b) == FLt(a, b) \/ FEq(a, b)
FGt(a, b) == FLt(b, a)
FGe(a, b) == FLe(b, a)

\* f32::max: a NaN operand is ignored.
FMax(a, b) == IF a.k = "nan" THEN b ELSE IF b.k = "nan" THEN a
              ELSE IF FLt(a, b) THEN b ELSE a

\* f32::clamp: NaN stays NaN.
FClamp(a, lo, hi) == IF a.k = "nan" THEN NaN
                     ELSE IF FLt(a, lo) THEN lo
                     ELSE IF FGt(a, hi) THEN hi ELSE a

FAbs(a) == IF a.k = "nan" THEN NaN ELSE [a EXCEPT !.n = Abs(a.n)]

\* Largest r with r*r <= n, by bisection on [lo, hi).
RECURSIVE ISqrtIn(_, _, _)
ISqrtIn(n, lo, hi) ==
    IF hi - lo <= 1 THEN lo
    ELSE LET mid == (lo + hi) \div 2
         IN  IF mid * mid <= n THEN ISqrtIn(n, mid, hi) ELSE ISqrtIn(n, lo, mid)

ISqrt(n) == ISqrtIn(n, 0, 46341)

\* f32::sqrt, to one decimal digit (to the unit for arguments above 10^7).
FSqrt(a) ==
    IF a.k = "nan" THEN NaN
    ELSE IF a.k # "fin" THEN (IF a.n < 0 THEN NaN ELSE a)
    ELSE IF a.n < 0 THEN NaN
    ELSE IF a.n >= 10000000 THEN Int2F(ISqrt(a.n \div a.d))
    ELSE Fin(ISqrt((a.n * 100) \div a.d), 10)

I32_MAX == 2147483647
I32_MIN == -2147483647 - 1

\* `as i32` on an f32: truncates toward zero, saturates, and maps NaN to 0.
F2I32(a) ==
    IF a.k = "nan" THEN 0
    ELSE IF a.k # "fin" THEN (IF a.n < 0 THEN I32_MIN ELSE I32_MAX)
    ELSE IF a.n >= 0 THEN a.n \div a.d ELSE -((-a.n) \div a.d)

\* `as u8` on an f32: truncates toward zero, saturates to 0..255, NaN to 0.
F2U8(a) ==
    IF a.k = "nan" THEN 0
    ELSE IF a.k # "fin" THEN (IF a.n < 0 THEN 0 ELSE 255)
    ELSE IF a.n <= 0 THEN 0
    ELSE IF a.n \div a.d > 255 THEN 255 ELSE a.n \div a.d


\* ------------------------------------------------------------------------
\* i32 arithmetic (ScreenCoordinate components), keeping the 32-bit width.
\* Each operation yields the two's-complement result and an overflow flag.
\* ------------------------------------------------------------------------

AddOverflows(a, b) == (b > 0 /\ a > I32_MAX - b) \/ (b < 0 /\ a < I32_MIN - b)

WrapAdd(a, b) ==
    IF ~AddOverflows(a, b) THEN a + b
    ELSE IF b > 0 THEN ((a - I32_MAX) - 1) + ((b - I32_MAX) - 1)
    ELSE ((a + I32_MAX) + 1) + ((b + I32_MAX) + 1)

SubOverflows(a, b) == (b < 0 /\ a > I32_MAX + b) \/ (b > 0 /\ a < I32_MIN + b)

WrapSub(a, b) ==
    IF ~SubOverflows(a, b) THEN a - b
    ELSE IF b < 0 THEN ((a - I32_MAX) - 1) + ((-(b + 1)) - I32_MAX)
    ELSE ((a + I32_MAX) + 1) + ((I32_MAX - b) + 1)

MulOverflows(a, b) ==
    IF a = 0 \/ b = 0 THEN FALSE
    ELSE IF a = I32_MIN THEN b # 1
    ELSE IF b = I32_MIN THEN a # 1
    ELSE LET ua == Abs(a)
             ub == Abs(b)
         IN  IF Sign(a) = Sign(b) THEN ua > I32_MAX \div ub
             ELSE ua > I32_MAX \div ub
                  /\ ~(ub > 1 /\ I32_MAX % ub = ub - 1 /\ ua = (I32_MAX \div ub) + 1)

\* The low and high 16-bit limbs of the two's-complement pattern of a.
Lo16(a) == a % 65536
Hi16(a) == (a \div 65536) % 65536

\* x * y modulo 2^16 for limbs x, y, through 8-bit halves of x.
MulMod16(x, y) == ((x % 256) * y + (((x \div 256) * y) % 256) * 256) % 65536

\* x * y \div 2^16 for limbs x, y, through 8-bit halves of x.
MulHigh16(x, y) ==
    LET p1 == (x \div 256) * y
        p0 == (x % 256) * y
    IN  (p1 \div 256) + (((p1 % 256) * 256 + p0) \div 65536)

\* a * b modulo 2^32, read back as an i32 (wrapping_mul).
WrapMul(a, b) ==
    LET lo == MulMod16(Lo16(a), Lo16(b))
        hi == (MulHigh16(Lo16(a), Lo16(b)) + MulMod16(Hi16(a), Lo16(b))
                 + MulMod16(Lo16(a), Hi16(b))) % 65536
    IN  IF hi >= 32768 THEN (hi - 65536) * 65536 + lo ELSE hi * 65536 + lo

\* ------------------------------------------------------------------------
\* math.rs: Vector3, ScreenCoordinate, Color, Mat4, Mat3
\* ------------------------------------------------------------------------

\* A fixed-size array value: every element is computed when it is built.
Array(f) == SubSeq(f, 1, Len(f))

Vector3(x, y, z) == [x |-> x, y |-> y, z |-> z]
\* A Vector3 with integer components.
V3(x, y, z) == Vector3(Int2F(x), Int2F(y), Int2F(z))
\* The Vector3 with the components out[0], out[1], out[2].
Vec3(out) == Vector3(out[1], out[2], out[3])
ORIGIN == Vector3(Zero, Zero, Zero)
ScreenCoordinate(x, y) == [x |-> x, y |-> y]
Color(r, g, b) == [r |-> r, g |-> g, b |-> b]
ColorDefault == Color(0, 0, 0)

\* Sum of a sequence of f32, accumulated left to right from 0.0.
RECURSIVE FSumFrom(_, _, _)
FSumFrom(acc, s, i) == IF i > Len(s) THEN acc ELSE FSumFrom(FAdd(acc, s[i]), s, i + 1)
FSum(s) == FSumFrom(Zero, s, 1)

\* self.data[i] of a Mat4 or Mat3 (0-based, as in the source).
D(m, i) == m[i + 1]
at(m, col, row) == D(m, (row * 4) + col)
at3(m, col, row) == D(m, (row * 3) + col)

identity ==
    Array([i \in 1..16 |-> IF (i - 1) \div 4 = (i - 1) % 4 THEN One ELSE Zero])

translation(x, y, z) ==
    Array([i \in 1..16 |-> IF i = (0 * 4) + 3 + 1 THEN x
                     ELSE IF i = (1 * 4) + 3 + 1 THEN y
                     ELSE IF i = (2 * 4) + 3 + 1 THEN z
                     ELSE identity[i]])

translation_part(m) == Vector3(at(m, 3, 0), at(m, 3, 1), at(m, 3, 2))

scale(x, y, z) ==
    Array([i \in 1..16 |-> IF i = 1 THEN x
                     ELSE IF i = 6 THEN y
                     ELSE IF i = 11 THEN z
                     ELSE IF i = 16 THEN One ELSE Zero])

\* perspective(aspect_ratio, fov, near_plane, far_plane); the caller passes
\* tangent = tan(fov / 2).
perspective(aspect_ratio, tangent, near_plane, far_plane) ==
    Array([i \in 1..16 |->
        IF i = (0 * 4) + 0 + 1 THEN FDiv(One, FMul(aspect_ratio, tangent))
        ELSE IF i = (1 * 4) + 1 + 1 THEN FDiv(One, tangent)
        ELSE IF i = (2 * 4) + 2 + 1
            THEN FDiv(FNeg(FAdd(near_plane, far_plane)), FSub(far_plane, near_plane))
        ELSE IF i = (3 * 4) + 2 + 1 THEN FNeg(One)
        ELSE IF i = (2 * 4) + 3 + 1
            THEN FDiv(FNeg(FMul(FMul(Int2F(2), far_plane), near_plane)),
                      FSub(far_plane, near_plane))
        ELSE Zero])

P3(m, a, b, c) == FMul(FMul(D(m, a), D(m, b)), D(m, c))

\* The products Mat4::inverse sums into ret.data[i], in the order written:
\* <<s, a, b, c>> stands for + m[a]*m[b]*m[c] (s = 1) or - m[a]*m[b]*m[c]
\* (s = -1).
AdjugateTerms ==
    << \* ret.data[0]
       <<<<1, 5, 10, 15>>, <<-1, 5, 11, 14>>, <<-1, 9, 6, 15>>, <<1, 9, 7, 14>>, <<1, 13, 6, 11>>, <<-1, 13, 7, 10>>>>,
       \* ret.data[1]
       <<<<-1, 1, 10, 15>>, <<1, 1, 11, 14>>, <<1, 9, 2, 15>>, <<-1, 9, 3, 14>>, <<-1, 13, 2, 11>>, <<1, 13, 3, 10>>>>,
       \* ret.data[2]
       <<<<1, 1, 6, 15>>, <<-1, 1, 7, 14>>, <<-1, 5, 2, 15>>, <<1, 5, 3, 14>>, <<1, 13, 2, 7>>, <<-1, 13, 3, 6>>>>,
       \* ret.data[3]
       <<<<-1, 1, 6, 11>>, <<1, 1, 7, 10>>, <<1, 5, 2, 11>>, <<-1, 5, 3, 10>>, <<-1, 9, 2, 7>>, <<1, 9, 3, 6>>>>,
       \* ret.data[4]
       <<<<-1, 4, 10, 15>>, <<1, 4, 11, 14>>, <<1, 8, 6, 15>>, <<-1, 8, 7, 14>>, <<-1, 12, 6, 11>>, <<1, 12, 7, 10>>>>,
       \* ret.data[5]
       <<<<1, 0, 10, 15>>, <<-1, 0, 11, 14>>, <<-1, 8, 2, 15>>, <<1, 8, 3, 14>>, <<1, 12, 2, 11>>, <<-1, 12, 3, 10>>>>,
       \* ret.data[6]
       <<<<-1, 0, 6, 15>>, <<1, 0, 7, 14>>, <<1, 4, 2, 15>>, <<-1, 4, 3, 14>>, <<-1, 12, 2, 7>>, <<1, 12, 3, 6>>>>,
       \* ret.data[7]
       <<<<1, 0, 6, 11>>, <<-1, 0, 7, 10>>, <<-1, 4, 2, 11>>, <<1, 4, 3, 10>>, <<1, 8, 2, 7>>, <<-1, 8, 3, 6>>>>,
       \* ret.data[8]
       <<<<1, 4, 9, 15>>, <<-1, 4, 11, 13>>, <<-1, 8, 5, 15>>, <<1, 8, 7, 13>>, <<1, 12, 5, 11>>, <<-1, 12, 7, 9>>>>,
       \* ret.data[9]
       <<<<-1, 0, 9, 15>>, <<1, 0, 11, 13>>, <<1, 8, 1, 15>>, <<-1, 8, 3, 13>>, <<-1, 12, 1, 11>>, <<1, 12, 3, 9>>>>,
       \* ret.data[10]
       <<<<1, 0, 5, 15>>, <<-1, 0, 7, 13>>, <<-1, 4, 1, 15>>, <<1, 4, 3, 13>>, <<1, 12, 1, 7>>, <<-1, 12, 3, 5>>>>,
       \* ret.data[11]
       <<<<-1, 0, 5, 11>>, <<1, 0, 7, 9>>, <<1, 4, 1, 11>>, <<-1, 4, 3, 9>>, <<-1, 8, 1, 7>>, <<1, 8, 3, 5>>>>,
       \* ret.data[12]
       <<<<-1, 4, 9, 14>>, <<1, 4, 10, 13>>, <<1, 8, 5, 14>>, <<-1, 8, 6, 13>>, <<-1, 12, 5, 10>>, <<1, 12, 6, 9>>>>,
       \* ret.data[13]
       <<<<1, 0, 9, 14>>, <<-1, 0, 10, 13>>, <<-1, 8, 1, 14>>, <<1, 8, 2, 13>>, <<1, 12, 1, 10>>, <<-1, 12, 2, 9>>>>,
       \* ret.data[14]
       <<<<-1, 0, 5, 14>>, <<1, 0, 6, 13>>, <<1, 4, 1, 14>>, <<-1, 4, 2, 13>>, <<-1, 12, 1, 6>>, <<1, 12, 2, 5>>>>,
       \* ret.data[15]
       <<<<1, 0, 5, 10>>, <<-1, 0, 6, 9>>, <<-1, 4, 1, 10>>, <<1, 4, 2, 9>>, <<1, 8, 1, 6>>, <<-1, 8, 2, 5>>>> >>

\* The sixteen cofactor sums Mat4::inverse stores in ret before scaling.
Adjugate(m) ==
    LET Signed(s, p) == IF s < 0 THEN FNeg(p) ELSE p
        Term(q) == Signed(q[1], P3(m, q[2], q[3], q[4]))
    IN  Array([i \in 1..16 |-> FSum(Array([j \in 1..6 |-> Term(AdjugateTerms[i][j])]))])

None == [some |-> FALSE]
Some(v) == [some |-> TRUE, val |-> v]

\* An inverse that leaves out the division by the determinant.
inverseUnscaled(m) ==
    LET Det(ret) ==
            FAdd(FAdd(FAdd(FMul(D(m, 0), D(ret, 0)), FMul(D(m, 1), D(ret, 4))),
                      FMul(D(m, 2), D(ret, 8))),
                 FMul(D(m, 3), D(ret, 12)))
        From(ret) == IF FEq(Det(ret), Zero) THEN None ELSE Some(ret)
    IN  From(Adjugate(m))

inverse(m) ==
    LET Scaled(ret, det) ==
            IF FEq(det, Zero) THEN None
            ELSE LET rdet == FDiv(One, det)
                 IN  Some(Array([i \in 1..16 |-> FMul(ret[i], rdet)]))
        Det(ret) ==
            FAdd(FAdd(FAdd(FMul(D(m, 0), D(ret, 0)), FMul(D(m, 1), D(ret, 4))),
                      FMul(D(m, 2), D(ret, 8))),
                 FMul(D(m, 3), D(ret, 12)))
        From(ret) == Scaled(ret, Det(ret))
    IN  From(Adjugate(m))

transpose(m) == Array([i \in 1..16 |-> at(m, (i - 1) \div 4, (i - 1) % 4)])

\* A product with the operands exchanged.
Mat4MulSwapped(a, b) ==
    Array([n \in 1..16 |->
        LET i == (n - 1) \div 4
            j == (n - 1) % 4
        IN  FSum([k \in 1..4 |-> FMul(at(b, k - 1, i), at(a, j, k - 1))])])

\* impl Mul for Mat4
Mat4Mul(a, b) ==
    Array([n \in 1..16 |->
        LET i == (n - 1) \div 4
            j == (n - 1) % 4
        IN  FSum([k \in 1..4 |-> FMul(at(a, k - 1, i), at(b, j, k - 1))])])

\* impl Mul<Vector3> for Mat4: promotes to (x, y, z, 1), divides by w.
\* (x / w, y / w, z / w) of a four-component vector.
DivideByW(vec4_out) ==
    Vector3(FDiv(vec4_out[1], vec4_out[4]),
            FDiv(vec4_out[2], vec4_out[4]),
            FDiv(vec4_out[3], vec4_out[4]))

Mat4MulVec(m, rhs) ==
    DivideByW(Array([i \in 1..4 |->
        FSum(Array([k \in 1..4 |->
            FMul(at(m, k - 1, i - 1), <<rhs.x, rhs.y, rhs.z, One>>[k])]))]))

\* #[derive(Default)] on Mat3: nine zeros.
Mat3Default == Array([i \in 1..9 |-> Zero])

\* impl From<Mat4> for Mat3
Mat3From(item) == Array([n \in 1..9 |-> at(item, (n - 1) % 3, (n - 1) \div 3)])

\* impl Mul<Vector3> for Mat3
Mat3MulVec(m, rhs) ==
    Vec3(Array([i \in 1..3 |->
        FSum(Array([k \in 1..3 |->
            FMul(at3(m, k - 1, i - 1), <<rhs.x, rhs.y, rhs.z>>[k])]))]))

VAdd(a, b) == Vector3(FAdd(a.x, b.x), FAdd(a.y, b.y), FAdd(a.z, b.z))
VSub(a, b) == Vector3(FSub(a.x, b.x), FSub(a.y, b.y), FSub(a.z, b.z))
VMul(a, b) == Vector3(FMul(a.x, b.x), FMul(a.y, b.y), FMul(a.z, b.z))
VScale(a, f) == Vector3(FMul(a.x, f), FMul(a.y, f), FMul(a.z, f))

dot(a, b) == FAdd(FAdd(FMul(a.x, b.x), FMul(a.y, b.y)), FMul(a.z, b.z))

magnitude(v) == FSqrt(FAdd(FAdd(FMul(v.x, v.x), FMul(v.y, v.y)), FMul(v.z, v.z)))

\* v / mag, or the zero vector when |mag| <= f32::EPSILON.
NormalizedBy(v, mag) ==
    IF FLe(FAbs(mag), F32_EPSILON) THEN ORIGIN
    ELSE Vector3(FDiv(v.x, mag), FDiv(v.y, mag), FDiv(v.z, mag))

normalized(v) == NormalizedBy(v, magnitude(v))

ndc_to_pixel(v, screen_width, screen_height) ==
    ScreenCoordinate(
        F2I32(FMul(FMul(FAdd(v.x, One), Half), Int2F(screen_width))),
        F2I32(FMul(FMul(FSub(One, v.y), Half), Int2F(screen_height))))

to_color(v) ==
    Color(F2U8(FMul(FClamp(v.x, Zero, One), Int2F(255))),
          F2U8(FMul(FClamp(v.y, Zero, One), Int2F(255))),
          F2U8(FMul(FClamp(v.z, Zero, One), Int2F(255))))

to_vector3(c) ==
    Vector3(Fin(c.r, 255), Fin(c.g, 255), Fin(c.b, 255))


\* ------------------------------------------------------------------------
\* image.rs: Image sampling
\* ------------------------------------------------------------------------

Image(width, height, data) == [width |-> width, height |-> height, data |-> data]

\* f32::floor and f32::ceil
FFloor(a) == IF a.k # "fin" THEN a
             ELSE Int2F(IF a.n >= 0 THEN a.n \div a.d ELSE -(((-a.n) + a.d - 1) \div a.d))
FCeil(a) == IF a.k # "fin" THEN a ELSE FNeg(FFloor(FNeg(a)))

\* `as usize` on an f32: truncates, saturates at 0, NaN to 0.
F2Usize(a) == IF a.k = "nan" THEN 0
              ELSE IF a.k # "fin" THEN (IF a.n < 0 THEN 0 ELSE I32_MAX)
              ELSE IF a.n <= 0 THEN 0 ELSE a.n \div a.d

ClampInt(n, lo, hi) == IF n < lo THEN lo ELSE IF n > hi THEN hi ELSE n

\* The blend of the four corner colours q11, q21, q12, q22 at (u, v).
BilinearBlend(u, v, x1, x2, y1, y2, q11, q21, q12, q22) ==
    LET range == FMul(FSub(x2, x1), FSub(y2, y1))
        temp1 == FDiv(FSub(x2, u), range)
        temp2 == FDiv(FSub(u, x1), range)
        temp3 == VAdd(VScale(q11, temp1), VScale(q21, temp2))
        temp4 == VAdd(VScale(q12, temp1), VScale(q22, temp2))
    IN  to_color(VAdd(VScale(temp3, FSub(y2, v)), VScale(temp4, FSub(v, y1))))

\* The corners of the cell with the given texel indices, and their colours.
BilinearCell(img, u, v, max_x, max_y, x_low_idx, x_high_idx, y_low_idx, y_high_idx) ==
    BilinearBlend(u, v,
                  FSub(FDiv(Int2F(x_low_idx), Int2F(max_x)), F32_EPSILON),
                  FAdd(FDiv(Int2F(x_high_idx), Int2F(max_x)), F32_EPSILON),
                  FSub(FDiv(Int2F(y_low_idx), Int2F(max_y)), F32_EPSILON),
                  FAdd(FDiv(Int2F(y_high_idx), Int2F(max_y)), F32_EPSILON),
                  to_vector3(img.data[(y_low_idx * img.width) + x_low_idx + 1]),
                  to_vector3(img.data[(y_low_idx * img.width) + x_high_idx + 1]),
                  to_vector3(img.data[(y_high_idx * img.width) + x_low_idx + 1]),
                  to_vector3(img.data[(y_high_idx * img.width) + x_high_idx + 1]))

\* sample_bilinear after `let v = 1.0 - v`.
BilinearAt(img, u, v, max_x, max_y) ==
    BilinearCell(img, u, v, max_x, max_y,
                 ClampInt(F2Usize(FFloor(FMul(u, Int2F(max_x)))), 0, max_x),
                 ClampInt(F2Usize(FCeil(FMul(u, Int2F(max_x)))), 0, max_x),
                 ClampInt(F2Usize(FFloor(FMul(v, Int2F(max_y)))), 0, max_y),
                 ClampInt(F2Usize(FCeil(FMul(v, Int2F(max_y)))), 0, max_y))

sample_bilinear(img, u, v) ==
    BilinearAt(img, u, FSub(One, v), img.width - 1, img.height - 1)

\* ------------------------------------------------------------------------
\* image.rs: PPM files. A file's text is a sequence of characters.
\* ------------------------------------------------------------------------

DigitChars == <<"0", "1", "2", "3", "4", "5", "6", "7", "8", "9">>
IsDigit(c) == \E d \in 1..10 : DigitChars[d] = c
DigitValue(c) == (CHOOSE d \in 1..10 : DigitChars[d] = c) - 1
IsWhitespace(c) == c \in {" ", "\t", "\n", "\r"}

\* format!("{}", n) for an unsigned integer n.
RECURSIVE Display(_)
Display(n) ==
    IF n < 10 THEN <<DigitChars[n + 1]>>
    ELSE Display(n \div 10) \o <<DigitChars[(n % 10) + 1]>>

\* The k-th smallest element of a set of integers.
Nth(S, k) == CHOOSE i \in S : Cardinality({ j \in S : j < i }) = k - 1

\* BufRead::lines: the text split at "\n", without the line ends.
lines(text) ==
    LET ends == { i \in 1..Len(text) : text[i] = "\n" }
        n == Cardinality(ends)
        StartOf(k) == IF k = 1 THEN 1 ELSE Nth(ends, k - 1) + 1
        Strip(l) == IF l # <<>> /\ l[Len(l)] = "\r" THEN SubSeq(l, 1, Len(l) - 1) ELSE l
        full == Array([k \in 1..n |-> Strip(SubSeq(text, StartOf(k), Nth(ends, k) - 1))])
    IN  IF StartOf(n + 1) <= Len(text)
        THEN Append(full, SubSeq(text, StartOf(n + 1), Len(text)))
        ELSE full

\* str::split_whitespace: the maximal runs of non-whitespace characters.
split_whitespace(line) ==
    LET starts == { i \in 1..Len(line) :
                      ~IsWhitespace(line[i]) /\ (i = 1 \/ IsWhitespace(line[i - 1])) }
        stops == { i \in 1..Len(line) :
                     ~IsWhitespace(line[i]) /\ (i = Len(line) \/ IsWhitespace(line[i + 1])) }
    IN  Array([k \in 1..Cardinality(starts) |-> SubSeq(line, Nth(starts, k), Nth(stops, k))])

\* str::trim
trim(line) ==
    LET keep == { i \in 1..Len(line) : ~IsWhitespace(line[i]) }
    IN  IF keep = {} THEN <<>>
        ELSE SubSeq(line, Nth(keep, 1), Nth(keep, Cardinality(keep)))

\* The value of a sequence of decimal digits.
RECURSIVE DigitsValue(_)
DigitsValue(ds) ==
    IF ds = <<>> THEN 0
    ELSE (DigitsValue(SubSeq(ds, 1, Len(ds) - 1)) * 10) + DigitValue(ds[Len(ds)])

Ok(v) == [ok |-> TRUE, val |-> v]
Err(msg) == [ok |-> FALSE, panic |-> FALSE, msg |-> msg]
\* An index out of range: the program aborts.
Panic == [ok |-> FALSE, panic |-> TRUE, msg |-> "index out of bounds"]

\* str::parse::<usize>: an optional "+" and at least one digit.
parse_usize(tok) ==
    LET ds == IF tok # <<>> /\ tok[1] = "+" THEN Tail(tok) ELSE tok
    IN  IF ds # <<>> /\ \A i \in 1..Len(ds) : IsDigit(ds[i])
        THEN Ok(DigitsValue(ds))
        ELSE Err("ParseIntError")

\* str::parse::<f32> on decimal numbers: an optional sign, digits, and an
\* optional fraction.
parse_f32(tok) ==
    LET neg == tok # <<>> /\ tok[1] = "-"
        body == IF tok # <<>> /\ tok[1] \in {"+", "-"} THEN Tail(tok) ELSE tok
        dots == { i \in 1..Len(body) : body[i] = "." }
        whole == IF dots = {} THEN body ELSE SubSeq(body, 1, Nth(dots, 1) - 1)
        frac == IF dots = {} THEN <<>> ELSE SubSeq(body, Nth(dots, 1) + 1, Len(body))
        Pow10(ds) == DigitsValue(<<"1">> \o [i \in 1..Len(ds) |-> "0"])
        mag == FAdd(Int2F(DigitsValue(whole)), Fin(DigitsValue(frac), Pow10(frac)))
    IN  IF /\ Cardinality(dots) <= 1
           /\ whole \o frac # <<>>
           /\ \A i \in 1..Len(whole) : IsDigit(whole[i])
           /\ \A i \in 1..Len(frac) : IsDigit(frac[i])
        THEN Ok(IF neg THEN FNeg(mag) ELSE mag)
        ELSE Err("ParseFloatError")

\* The text of the lines of pixels from index i on.
RECURSIVE PixelLines(_, _)
PixelLines(data, i) ==
    IF i > Len(data) THEN <<>>
    ELSE Display(data[i].r) \o <<" ">> \o Display(data[i].g) \o <<" ">>
         \o Display(data[i].b) \o <<"\n">> \o PixelLines(data, i + 1)

\* Image::save_to_ppm: the text written to the file.
save_to_ppm(img) ==
    <<"P", "3", " ">> \o Display(img.width) \o <<" ">> \o Display(img.height)
    \o <<"\n", "2", "5", "5", "\n">> \o PixelLines(img.data, 1)

\* One channel of a pixel read by load_ppm.
Channel(value, max_value) == F2U8(FMul(FDiv(value, max_value), Int2F(255)))

\* The inner loop of load_ppm over the chunks of three tokens of one line,
\* from chunk number c on; idx pixels were stored before.
RECURSIVE LoadChunks(_, _, _, _, _)
LoadChunks(toks, c, data, idx, max_value) ==
    IF (3 * c) > Len(toks) THEN Ok([data |-> data, idx |-> idx])
    ELSE LET r == parse_f32(toks[(3 * c) - 2])
             g == parse_f32(toks[(3 * c) - 1])
             b == parse_f32(toks[3 * c])
         IN  IF ~r.ok THEN r
             ELSE IF idx + 1 > Len(data) THEN Panic
             ELSE IF ~g.ok THEN g
             ELSE IF ~b.ok THEN b
             ELSE LoadChunks(toks, c + 1,
                             [data EXCEPT ![idx + 1] =
                                 Color(Channel(r.val, max_value), Channel(g.val, max_value),
                                       Channel(b.val, max_value))],
                             idx + 1, max_value)

\* The loop of load_ppm over the lines after the header, from line li on.
RECURSIVE LoadLines(_, _, _, _, _)
LoadLines(ls, li, data, idx, max_value) ==
    IF li > Len(ls) THEN Ok(data)
    ELSE LET split_line == split_whitespace(ls[li])
         IN  IF Len(split_line) % 3 # 0
             THEN Err("the number of values in the PPM file is not a multiple of three")
             ELSE LET done == LoadChunks(split_line, 1, data, idx, max_value)
                  IN  IF ~done.ok THEN done
                      ELSE LoadLines(ls, li + 1, done.val.data, done.val.idx, max_value)

\* Image::load_ppm on the text of a file.
load_ppm(text) ==
    LET ls == lines(text)
    IN  IF Len(ls) < 1 THEN Err("PPM file did not contain header")
        ELSE IF ls[1] # <<"P", "3">> THEN Err("PPM File was not in P3 Format")
        ELSE IF Len(ls) < 3 THEN Err("PPM file did not contain header")
        ELSE LET split_size_line == split_whitespace(ls[2])
             IN  IF Len(split_size_line) # 2
                 THEN Err("PPM File did not contain two numbers to define size in the header")
                 ELSE LET width == parse_usize(split_size_line[1])
                          height == parse_usize(split_size_line[2])
                          max_value == parse_f32(trim(ls[3]))
                      IN  IF ~width.ok THEN width
                          ELSE IF ~height.ok THEN height
                          ELSE IF ~max_value.ok THEN max_value
                          ELSE LET body == LoadLines(ls, 4,
                                               Array([i \in 1..(width.val * height.val) |->
                                                         ColorDefault]),
                                               0, max_value.val)
                               IN  IF ~body.ok THEN body
                                   ELSE Ok(Image(width.val, height.val, body.val))

\* ------------------------------------------------------------------------
\* rasterizer.rs
\* ------------------------------------------------------------------------

Min(a, b) == IF a < b THEN a ELSE b
Max(a, b) == IF a > b THEN a ELSE b

\* triangle_edge before the cast to f32: the i32 value and whether any of the
\* four differences, two products and final difference overflowed.
triangle_edge(point, v0, v1) ==
    LET Difference(p1, p2, ovf) ==
            [v |-> WrapSub(p1, p2), ovf |-> ovf \/ SubOverflows(p1, p2)]
        Products(d1, d2, d3, d4) ==
            Difference(WrapMul(d1, d2), WrapMul(d3, d4),
                       \/ SubOverflows(point.x, v0.x) \/ SubOverflows(v0.y, v1.y)
                       \/ SubOverflows(point.y, v0.y) \/ SubOverflows(v0.x, v1.x)
                       \/ MulOverflows(d1, d2) \/ MulOverflows(d3, d4))
    IN  Products(WrapSub(point.x, v0.x), WrapSub(v0.y, v1.y),
                 WrapSub(point.y, v0.y), WrapSub(v0.x, v1.x))

is_on_screen(point, near, far) ==
    /\ FGt(point.z, near)
    /\ FLt(point.z, far)
    /\ FGe(point.x, FNeg(One))
    /\ FLe(point.x, One)
    /\ FGe(point.y, FNeg(One))
    /\ FLe(point.y, One)

phong_lighting(light, vertex, normal) ==
    VAdd(VScale(to_vector3(light.color),
                FMax(dot(normal, normalized(VSub(light.position, vertex))), Zero)),
         VScale(to_vector3(light.color), light.ambient_strength))

\* lights.iter().map(phong_lighting).fold(Vector3::default(), +)
RECURSIVE LitColorFrom(_, _, _, _, _)
LitColorFrom(acc, lts, i, vertex, normal) ==
    IF i > Len(lts) THEN acc
    ELSE LitColorFrom(VAdd(acc, phong_lighting(lts[i], vertex, normal)),
                      lts, i + 1, vertex, normal)
LitColor(lts, vertex, normal) == LitColorFrom(ORIGIN, lts, 1, vertex, normal)

\* The matrix draw_mesh transforms normals with.
NormalMatrix(transform) ==
    LET From(inv) == IF inv.some THEN Mat3From(transpose(inv.val)) ELSE Mat3Default
    IN  From(inverse(transform))

\* A bounding box whose right end is clipped one column too late.
BoundingBoxWide(pixel_v0, pixel_v1, pixel_v2, cam) ==
    [x_start |-> Max(Min(Min(pixel_v0.x, pixel_v1.x), pixel_v2.x), 0),
     x_end   |-> Min(Max(Max(pixel_v0.x, pixel_v1.x), pixel_v2.x), cam.canvas_width + 1),
     y_start |-> Max(Min(Min(pixel_v0.y, pixel_v1.y), pixel_v2.y), 0),
     y_end   |-> Min(Max(Max(pixel_v0.y, pixel_v1.y), pixel_v2.y), cam.canvas_height)]

\* Axis-aligned bounding box of the triangle, clipped to the canvas.
BoundingBox(pixel_v0, pixel_v1, pixel_v2, cam) ==
    [x_start |-> Max(Min(Min(pixel_v0.x, pixel_v1.x), pixel_v2.x), 0),
     x_end   |-> Min(Max(Max(pixel_v0.x, pixel_v1.x), pixel_v2.x), cam.canvas_width),
     y_start |-> Max(Min(Min(pixel_v0.y, pixel_v1.y), pixel_v2.y), 0),
     y_end   |-> Min(Max(Max(pixel_v0.y, pixel_v1.y), pixel_v2.y), cam.canvas_height)]

\* The values draw_mesh computes for one vertex of a triangle, from its world
\* position, its transformed normal and its NDC position: the normal, the
\* cull test, the NDC position with z replaced by 1/z, the pixel, and the lit
\* colour times 1/z.
VertexProjected(lts, cam, world_to_v, v_normal, ndc_v) ==
    [normal |-> v_normal,
     on_screen |-> is_on_screen(ndc_v, cam.near_plane, cam.far_plane),
     ndc |-> [ndc_v EXCEPT !.z = FDiv(One, ndc_v.z)],
     pixel |-> ndc_to_pixel(ndc_v, cam.canvas_width, cam.canvas_height),
     c |-> VScale(LitColor(lts, world_to_v, v_normal), FDiv(One, ndc_v.z))]

VertexPlaced(lts, cam, world_to_v, v_normal) ==
    VertexProjected(lts, cam, world_to_v, v_normal,
                    Mat4MulVec(Mat4Mul(cam.projection_mat, cam.view_mat), world_to_v))

\* Vertex number v with normal number n (0-based, as in Triangle).
VertexSetup(mesh, v, n, transform, inverse_transform, lts, cam) ==
    VertexPlaced(lts, cam,
                 Mat4MulVec(transform, mesh.verticies[v + 1]),
                 normalized(Mat3MulVec(inverse_transform, mesh.vertex_normals[n + 1])))

\* The values of a triangle, from those of its three vertices.
SetupOf(V0, V1, V2, cam) ==
    [normals |-> <<V0.normal, V1.normal, V2.normal>>,
     on_screen |-> V0.on_screen \/ V1.on_screen \/ V2.on_screen,
     ndc |-> <<V0.ndc, V1.ndc, V2.ndc>>,
     pixel |-> <<V0.pixel, V1.pixel, V2.pixel>>,
     c |-> <<V0.c, V1.c, V2.c>>,
     area |-> triangle_edge(V2.pixel, V0.pixel, V1.pixel),
     box |-> BoundingBox(V0.pixel, V1.pixel, V2.pixel, cam)]

\* Everything draw_mesh computes for triangle t before the pixel loops.
TriangleSetup(mesh, t, transform, inverse_transform, lts, cam) ==
    SetupOf(VertexSetup(mesh, t.a, t.a_normal, transform, inverse_transform, lts, cam),
            VertexSetup(mesh, t.b, t.b_normal, transform, inverse_transform, lts, cam),
            VertexSetup(mesh, t.c, t.c_normal, transform, inverse_transform, lts, cam),
            cam)

\* One conjunct of the inside test, for edge value w and NDC edge vector.
EdgeTest(w, edge) ==
    \/ /\ FEq(w, Zero)
       /\ \/ (FEq(edge.y, Zero) /\ FGt(edge.x, Zero))
          \/ FGt(edge.y, Zero)
    \/ FGe(w, Zero)

\* Depth tests that differ from the one of line 121: not strict, any
\* different depth, and no test at all.
DepthTestLe(depth, stored) == FLe(depth, stored)
DepthTestNe(depth, stored) == ~FEq(depth, stored)
DepthTestNone(depth, stored) == TRUE

\* The depth test of line 121.
DepthTest(depth, stored) == FLt(depth, stored)

\* Image::sample, the sampler the textured branch calls (bilinear).
sample(img, u, v) == sample_bilinear(img, u, v)

\* (a0 * w0 + a1 * w1 + a2 * w2) * depth
Interpolate(a0, a1, a2, w0, w1, w2, depth) ==
    VScale(VAdd(VAdd(VScale(a0, w0), VScale(a1, w1)), VScale(a2, w2)), depth)

\* The texture colour at object_uv, as a vector.
SampleAt(img, object_uv) == to_vector3(sample(img, object_uv.x, object_uv.y))

\* The colour written for a fragment that passed the depth test.
Shade(mesh, t, S, w0, w1, w2, depth) ==
    IF mesh.texture.some THEN
        to_color(VMul(
            SampleAt(mesh.texture.val,
                     Interpolate(
                         VScale(mesh.vertex_texture_coords[t.a_texture + 1], S.ndc[1].z),
                         VScale(mesh.vertex_texture_coords[t.b_texture + 1], S.ndc[2].z),
                         VScale(mesh.vertex_texture_coords[t.c_texture + 1], S.ndc[3].z),
                         w0, w1, w2, depth)),
            Interpolate(S.c[1], S.c[2], S.c[3], w0, w1, w2, depth)))
    ELSE to_color(Interpolate(S.c[1], S.c[2], S.c[3], w0, w1, w2, depth))

\* The fragment of triangle number ti at pixel (x, y): the values the body
\* of the pixel loops computes before it touches the buffers.
\*   ovf    - a triangle_edge call overflowed
\*   inside - the pixel passed the inside test
FragmentShaded(mesh, ti, S, cam, x, y, e0, e1, e2, inside, w0, w1, w2, depth) ==
    [tri |-> ti, x |-> x, y |-> y,
     ovf |-> e0.ovf \/ e1.ovf \/ e2.ovf,
     inside |-> inside,
     idx |-> (y * cam.canvas_width) + x,
     area |-> S.area.v,
     w |-> <<e0.v, e1.v, e2.v>>,
     depth |-> IF inside THEN depth ELSE NaN,
     color |-> IF inside
               THEN Shade(mesh, mesh.face_indicies[ti], S, w0, w1, w2, depth)
               ELSE ColorDefault]

\* w0 /= area; w1 /= area; w2 /= area;
\* depth = 1.0 / (ndc_v0.z * w0 + ndc_v1.z * w1 + ndc_v2.z * w2)
FragmentWeighted(mesh, ti, S, cam, x, y, e0, e1, e2, inside, w0, w1, w2) ==
    FragmentShaded(mesh, ti, S, cam, x, y, e0, e1, e2, inside, w0, w1, w2,
                   FDiv(One, FAdd(FAdd(FMul(S.ndc[1].z, w0), FMul(S.ndc[2].z, w1)),
                                  FMul(S.ndc[3].z, w2))))

\* The inside test on the three edge values, and the division by area.
FragmentEdges(mesh, ti, S, cam, x, y, e0, e1, e2) ==
    FragmentWeighted(mesh, ti, S, cam, x, y, e0, e1, e2,
                     /\ EdgeTest(Int2F(e0.v), VSub(S.ndc[3], S.ndc[2]))
                     /\ EdgeTest(Int2F(e1.v), VSub(S.ndc[1], S.ndc[3]))
                     /\ EdgeTest(Int2F(e2.v), VSub(S.ndc[2], S.ndc[1])),
                     FDiv(Int2F(e0.v), Int2F(S.area.v)),
                     FDiv(Int2F(e1.v), Int2F(S.area.v)),
                     FDiv(Int2F(e2.v), Int2F(S.area.v)))

\* Fragment with the vertices of the first edge value exchanged.
FragmentSwapped(mesh, ti, S, cam, x, y) ==
    FragmentEdges(mesh, ti, S, cam, x, y,
                  triangle_edge(ScreenCoordinate(x, y), S.pixel[3], S.pixel[2]),
                  triangle_edge(ScreenCoordinate(x, y), S.pixel[3], S.pixel[1]),
                  triangle_edge(ScreenCoordinate(x, y), S.pixel[1], S.pixel[2]))

Fragment(mesh, ti, S, cam, x, y) ==
    FragmentEdges(mesh, ti, S, cam, x, y,
                  triangle_edge(ScreenCoordinate(x, y), S.pixel[2], S.pixel[3]),
                  triangle_edge(ScreenCoordinate(x, y), S.pixel[3], S.pixel[1]),
                  triangle_edge(ScreenCoordinate(x, y), S.pixel[1], S.pixel[2]))

\* for x in x_start..x_end { for y in y_start..y_end { ... } }: the fragments
\* of triangle ti in loop order (x outer, y inner), nx columns of ny pixels.
PixelLoop(mesh, ti, S, cam, nx, ny) ==
    Array([k \in 1..(nx * ny) |->
        Fragment(mesh, ti, S, cam,
                 S.box.x_start + ((k - 1) \div ny),
                 S.box.y_start + ((k - 1) % ny))])

\* What draw_mesh computes for triangle number ti with setup S without
\* looking at the buffers: the vertex normals, whether the triangle passed
\* the cull test, whether the area computation overflowed, and its fragments
\* in loop order.
FragmentsOf(mesh, ti, S, cam) ==
    [normals |-> S.normals,
     on_screen |-> S.on_screen,
     area_ovf |-> S.on_screen /\ S.area.ovf,
     frags |-> IF S.on_screen
               THEN PixelLoop(mesh, ti, S, cam,
                              Max(S.box.x_end - S.box.x_start, 0),
                              Max(S.box.y_end - S.box.y_start, 0))
               ELSE <<>>]

TriangleFragments(mesh, ti, transform, inverse_transform, lts, cam) ==
    FragmentsOf(mesh, ti,
                TriangleSetup(mesh, mesh.face_indicies[ti], transform, inverse_transform,
                              lts, cam),
                cam)

\* for t in &mesh.face_indicies, with the normal matrix computed before the
\* loop: the buffer-independent part of the call.
TrianglesOf(mesh, transform, inverse_transform, lts, cam) ==
    Array([ti \in 1..Len(mesh.face_indicies) |->
        TriangleFragments(mesh, ti, transform, inverse_transform, lts, cam)])

MeshFragments(mesh, transform, lts, cam) ==
    TrianglesOf(mesh, transform, NormalMatrix(transform), lts, cam)

\* The running state of one draw_mesh call: both buffers, the log of buffer
\* accesses, the normals computed per triangle, whether an i32 operation
\* overflowed, and whether the call panicked.
DrawState(pb, db) ==
    [pb |-> pb, db |-> db, trace |-> <<>>, normals |-> <<>>,
     overflowed |-> FALSE, panicked |-> FALSE]

\* The buffer-dependent part of the pixel loop body for fragment f.
\* overflow_checks: the build panics on i32 overflow instead of wrapping.
DrawPixel(st, f, checks) ==
    LET st1 == [st EXCEPT !.overflowed = @ \/ f.ovf]
    IN  IF f.ovf /\ checks THEN [st1 EXCEPT !.panicked = TRUE]
        ELSE IF ~f.inside THEN st1
        ELSE IF f.idx \notin DOMAIN st.db THEN
            \* index out of bounds: the slice access panics
            [st1 EXCEPT !.panicked = TRUE,
                        !.trace = Append(@, [tri |-> f.tri, x |-> f.x, y |-> f.y,
                                             idx |-> f.idx, in_bounds |-> FALSE,
                                             area |-> f.area, depth |-> f.depth,
                                             color |-> f.color,
                                             old_depth |-> NaN, new_depth |-> NaN,
                                             old_color |-> ColorDefault,
                                             new_color |-> ColorDefault])]
        ELSE LET pass == DepthTest(f.depth, st.db[f.idx])
                 new_depth == IF pass THEN f.depth ELSE st.db[f.idx]
                 new_color == IF pass THEN f.color ELSE st.pb[f.idx]
             IN  [st1 EXCEPT !.db[f.idx] = new_depth,
                             !.pb[f.idx] = new_color,
                             !.trace = Append(@, [tri |-> f.tri, x |-> f.x, y |-> f.y,
                                                  idx |-> f.idx, in_bounds |-> TRUE,
                                                  area |-> f.area, depth |-> f.depth,
                                                  color |-> f.color,
                                                  old_depth |-> st.db[f.idx],
                                                  new_depth |-> new_depth,
                                                  old_color |-> st.pb[f.idx],
                                                  new_color |-> new_color])]

RECURSIVE DrawFragments(_, _, _, _)
DrawFragments(st, frags, i, checks) ==
    IF st.panicked \/ i > Len(frags) THEN st
    ELSE DrawFragments(DrawPixel(st, frags[i], checks), frags, i + 1,
                       checks)

\* Body of `for t in &mesh.face_indicies` for one triangle.
DrawTriangle(st, T, checks) ==
    LET st1 == [st EXCEPT !.normals = Append(@, T.normals)]
    IN  IF ~T.on_screen THEN st1
        ELSE IF T.area_ovf /\ checks
            THEN [st1 EXCEPT !.overflowed = TRUE, !.panicked = TRUE]
        ELSE DrawFragments([st1 EXCEPT !.overflowed = @ \/ T.area_ovf], T.frags, 1,
                           checks)

RECURSIVE TriangleLoop(_, _, _, _)
TriangleLoop(st, triangles, ti, checks) ==
    IF st.panicked \/ ti > Len(triangles) THEN st
    ELSE TriangleLoop(DrawTriangle(st, triangles[ti], checks), triangles, ti + 1,
                      checks)

\* ------------------------------------------------------------------------
\* Inputs: cameras, lights, meshes and models the scene is drawn from
\* ------------------------------------------------------------------------

\* Largest number of draw_mesh calls in one run.
MaxDraws == 2

\* Camera::new(canvas_width, canvas_height, fov, near, far), with
\* tangent = tan(fov / 2).
CameraNew(canvas_width, canvas_height, tangent, near, far) ==
    [near_plane |-> near, far_plane |-> far,
     canvas_width |-> canvas_width, canvas_height |-> canvas_height,
     view_mat |-> identity,
     projection_mat |-> perspective(FDiv(Int2F(canvas_width), Int2F(canvas_height)),
                                    tangent, near, far)]

\* A camera with identity view and identity projection.
CameraFlat(canvas_width, canvas_height, near, far) ==
    [near_plane |-> near, far_plane |-> far,
     canvas_width |-> canvas_width, canvas_height |-> canvas_height,
     view_mat |-> identity, projection_mat |-> identity]

Cameras ==
    { CameraFlat(4, 4, Fin(1, 10), Int2F(10)),
      CameraFlat(4, 4, Int2F(-2), Int2F(10)),
      CameraFlat(10, 10, Fin(1, 10), Int2F(10)),
      CameraNew(4, 4, One, Fin(1, 10), Int2F(10)) }

Light(position, color, ambient_strength) ==
    [position |-> position, color |-> color, ambient_strength |-> ambient_strength]

\* One white light at (0, 0, 10) with ambient strength 0.
WhiteLight == Light(V3(0, 0, 10), Color(255, 255, 255), Zero)


Triangle(a, b, c) ==
    [a |-> a, b |-> b, c |-> c,
     a_normal |-> a, b_normal |-> b, c_normal |-> c,
     a_texture |-> 0, b_texture |-> 0, c_texture |-> 0]

\* A mesh without texture whose vertices all carry the normal n.
Mesh(verticies, n, face_indicies) ==
    [verticies |-> verticies,
     face_indicies |-> face_indicies,
     vertex_normals |-> Array([i \in 1..Len(verticies) |-> n]),
     vertex_texture_coords |-> <<ORIGIN>>,
     texture |-> None]

\* One triangle at depth z that the rasterizer covers: bottom-left, top,
\* bottom-right on the canvas.
MeshUp(z, n) == Mesh(<<V3(-1, -1, z), V3(0, 1, z), V3(1, -1, z)>>, n, <<Triangle(0, 1, 2)>>)

\* The counter-clockwise triangle (-1,-1,-1), (1,-1,-1), (0,1,-1) with normals (0,0,1).
MeshCcw == Mesh(<<V3(-1, -1, -1), V3(1, -1, -1), V3(0, 1, -1)>>, V3(0, 0, 1),
                <<Triangle(0, 1, 2)>>)

\* The square covering the canvas: top-left, top-right, bottom-right,
\* bottom-left, at depth zl on the left and zr on the right.
QuadVerts(zl, zr) == <<V3(-1, 1, zl), V3(1, 1, zr), V3(1, -1, zr), V3(-1, -1, zl)>>

\* Two right triangles sharing the diagonal, traversed in opposite directions.
MeshQuad(zl, zr) == Mesh(QuadVerts(zl, zr), V3(0, 0, 1), <<Triangle(0, 1, 2), Triangle(0, 2, 3)>>)
\* The same two triangles, the second with its vertex order reversed.
MeshQuadMixed == Mesh(QuadVerts(1, 1), V3(0, 0, 1), <<Triangle(0, 1, 2), Triangle(0, 3, 2)>>)
\* The same two triangles, both counter-clockwise.
MeshQuadCcw == Mesh(QuadVerts(1, 1), V3(0, 0, 1), <<Triangle(0, 2, 1), Triangle(0, 3, 2)>>)

\* Three collinear vertices on the anti-diagonal of the canvas.
MeshDegenerate == Mesh(<<V3(-1, -1, 1), V3(0, 0, 1), V3(1, 1, 1)>>, V3(0, 0, 1),
                       <<Triangle(0, 1, 2)>>)

\* A triangle that overlaps the canvas and leaves it on every side.
MeshOffCanvas == Mesh(<<V3(-3, -1, 1), V3(0, 3, 1), V3(3, -1, 1)>>, V3(0, 0, 1),
                      <<Triangle(0, 1, 2)>>)

\* One vertex at the top-left canvas corner, two that project far off-canvas.
MeshFarOff == Mesh(<<V3(-1, 1, 1), V3(32767, 1, 1), V3(-1, -32767, 1)>>,
                   V3(0, 0, -1), <<Triangle(0, 1, 2)>>)

\* One vertex in the camera plane z = 0 (w = 0 under a perspective projection).
MeshNearPlane == Mesh(<<V3(-1, -1, -1), V3(0, 1, 0), V3(1, -1, -1)>>, V3(0, 0, 1),
                      <<Triangle(0, 1, 2)>>)

\* One vertex at the top-left canvas corner, two far to either side of the bottom
\* row: twice the pixel-space area is 2^32.
MeshWrapZero == Mesh(<<V3(-1, 1, 1), V3(268435456, -1, 1), V3(-268435456, -1, 1)>>,
                     V3(0, 0, 1), <<Triangle(0, 1, 2)>>)

Model(mesh, transform) == [mesh |-> mesh, transform |-> transform]

\* A singular model matrix: flattens z to the plane z = 1.
Flatten == [translation(Zero, Zero, One) EXCEPT ![11] = Zero]

Models ==
    { Model(MeshUp(1, V3(0, 0, 1)), identity),
      Model(MeshUp(2, V3(0, 0, 1)), identity),
      Model(MeshUp(1, V3(0, 1, 0)), identity),
      Model(MeshUp(-1, V3(0, 0, 1)), identity),
      Model(MeshCcw, identity),
      Model(MeshQuad(1, 1), identity),
      Model(MeshQuad(1, 2), identity),
      Model(MeshQuadMixed, identity),
      Model(MeshQuadCcw, identity),
      Model(MeshDegenerate, identity),
      Model(MeshOffCanvas, identity),
      Model(MeshFarOff, identity),
      Model(MeshNearPlane, identity),
      Model(MeshUp(2, V3(0, 0, 1)), Flatten),
      Model(MeshUp(1, V3(0, 0, 1)), translation(One, FNeg(One), One)),
      Model(MeshUp(1, V3(0, 0, 1)), translation(FNeg(One), One, Zero)) }

\* A scene without lights.
UnlitModels ==
    { Model(MeshWrapZero, identity),
      Model(MeshUp(1, V3(0, 0, 1)), identity),
      Model(MeshDegenerate, identity) }

\* struct Scene { camera, lights, models }
Scene(cam, lts, models) == [camera |-> cam, lights |-> lts, models |-> models]

Scenes ==
    { Scene(cam, <<WhiteLight>>, Models) : cam \in Cameras }
    \cup { Scene(CameraFlat(4, 4, Fin(1, 10), Int2F(10)), <<>>, UnlitModels) }

\* The calls the scenes can make.
DrawCalls == UNION { { <<s.camera, s.lights, model>> : model \in s.models } : s \in Scenes }

\* The fragments of every call a scene can make, computed once.
FragmentTable ==
    [call \in DrawCalls |->
        MeshFragments(call[3].mesh, call[3].transform, call[2], call[1])]

\* draw_mesh(&model.mesh, model.transform, &lights, camera, pixel_buffer, depth_buffer)
draw_mesh(model, lts, cam, pbuf, dbuf, checks) ==
    TriangleLoop(DrawState(pbuf, dbuf), FragmentTable[<<cam, lts, model>>], 1, checks)

\* Scene::render from the buffers pbuf, dbuf: draw_mesh on each model in order;
\* a panic ends the program.
RECURSIVE render(_, _, _, _, _, _, _)
render(models, i, lts, cam, pbuf, dbuf, checks) ==
    IF i > Len(models) THEN DrawState(pbuf, dbuf)
    ELSE LET st == draw_mesh(models[i], lts, cam, pbuf, dbuf, checks)
         IN  IF st.panicked \/ i = Len(models) THEN st
             ELSE render(models, i + 1, lts, cam, st.pb, st.db, checks)

\* ------------------------------------------------------------------------
\* The renderer as a state machine
\* ------------------------------------------------------------------------

VARIABLES
    scene,           \* the scene being rendered: camera, lights, models
    overflow_checks, \* whether the build panics on integer overflow
    pixel_buffer,    \* colour buffer, indexed 0 .. width*height - 1
    depth_buffer,    \* depth buffer, same indexing
    drawn,           \* the models drawn so far, in order
    trace,           \* buffer accesses of the last draw_mesh call
    normals,         \* per triangle, the vertex normals the last call lit with
    overflowed,      \* some triangle_edge computation overflowed an i32
    panicked,        \* the program panicked
    image,           \* the Image that is saved to a PPM file
    file,            \* the text of the PPM file, once written
    loaded,          \* what load_ppm returned for the file, once called
    operands,        \* the matrices and the point of a matrix computation
    outcome          \* the results of the matrix computation, once done

vars == <<scene, overflow_checks, pixel_buffer, depth_buffer, drawn, trace,
          normals, overflowed, panicked, image, file, loaded, operands, outcome>>

NumPixels(cam) == cam.canvas_width * cam.canvas_height

\* raster2image: Image::new(width, height).data and vec![f32::MAX; num_pixels]
ClearedPixels(cam) == [i \in 0..(NumPixels(cam) - 1) |-> ColorDefault]
ClearedDepth(cam) == [i \in 0..(NumPixels(cam) - 1) |-> F32_MAX]

Init ==
    /\ scene \in Scenes
    /\ overflow_checks \in BOOLEAN
    /\ pixel_buffer = ClearedPixels(scene.camera)
    /\ depth_buffer = ClearedDepth(scene.camera)
    /\ drawn = <<>>
    /\ trace = <<>>
    /\ normals = <<>>
    /\ overflowed = FALSE
    /\ panicked = FALSE
    /\ image = Image(0, 0, <<>>)
    /\ file = None
    /\ loaded = None
    /\ operands = None
    /\ outcome = None

\* One iteration of Scene::render: draw_mesh on the next model.
DrawMesh(model) ==
    /\ ~panicked
    /\ Len(drawn) < MaxDraws
    /\ \E st \in { draw_mesh(model, scene.lights, scene.camera, pixel_buffer,
                              depth_buffer, overflow_checks) } :
           /\ pixel_buffer' = st.pb
           /\ depth_buffer' = st.db
           /\ trace' = st.trace
           /\ normals' = st.normals
           /\ overflowed' = (overflowed \/ st.overflowed)
           /\ panicked' = st.panicked
    /\ drawn' = Append(drawn, model)
    /\ UNCHANGED <<scene, overflow_checks, image, file, loaded, operands, outcome>>

Next == \E model \in scene.models : DrawMesh(model)

Spec == Init /\ [][Next]_vars

\* ------------------------------------------------------------------------
\* Saving an image to a PPM file and loading it back
\* ------------------------------------------------------------------------

\* Largest width and height of a saved image.
MaxDim == 2

\* The colours of the pixels of a saved image.
Palette == { Color(0, 0, 0), Color(255, 128, 7), Color(10, 0, 100) }

Images ==
    UNION { { Image(w, h, data) : data \in [1..(w * h) -> Palette] } :
            w \in 0..MaxDim, h \in 0..MaxDim }

InitPPM ==
    /\ scene = Scene(CameraFlat(4, 4, Fin(1, 10), Int2F(10)), <<WhiteLight>>, Models)
    /\ overflow_checks = FALSE
    /\ pixel_buffer = ClearedPixels(scene.camera)
    /\ depth_buffer = ClearedDepth(scene.camera)
    /\ drawn = <<>>
    /\ trace = <<>>
    /\ normals = <<>>
    /\ overflowed = FALSE
    /\ panicked = FALSE
    /\ image \in Images
    /\ file = None
    /\ loaded = None
    /\ operands = None
    /\ outcome = None

\* image.save_to_ppm(path)
SaveToPPM ==
    /\ ~file.some
    /\ file' = Some(save_to_ppm(image))
    /\ UNCHANGED <<scene, overflow_checks, pixel_buffer, depth_buffer, drawn, trace,
                   normals, overflowed, panicked, image, loaded, operands, outcome>>

\* Image::load_ppm(path)
LoadPPM ==
    /\ file.some
    /\ ~loaded.some
    /\ loaded' = Some(load_ppm(file.val))
    /\ UNCHANGED <<scene, overflow_checks, pixel_buffer, depth_buffer, drawn, trace,
                   normals, overflowed, panicked, image, file, operands, outcome>>

NextPPM == SaveToPPM \/ LoadPPM

SpecPPM == InitPPM /\ [][NextPPM]_vars

\* ------------------------------------------------------------------------
\* Properties of draw_mesh
\* ------------------------------------------------------------------------

\* The model drawn by the last step.
LastDrawn == drawn[Len(drawn)]

\* The trace entries of the last call that wrote to the buffers.
Writes(i) ==
    { k \in 1..Len(trace) :
        /\ trace[k].in_bounds
        /\ trace[k].idx = i
        /\ trace[k].new_depth # trace[k].old_depth }

\* C1: every index draw_mesh reads or writes lies inside both buffers and is
\* y * canvas_width + x for a pixel (x, y) of the canvas, also for triangles
\* with vertices that project off-canvas.
C1_IndexInBounds ==
    \A k \in 1..Len(trace) :
        /\ trace[k].in_bounds
        /\ trace[k].idx \in DOMAIN pixel_buffer
        /\ trace[k].idx \in DOMAIN depth_buffer
        /\ trace[k].idx = (trace[k].y * scene.camera.canvas_width) + trace[k].x
        /\ 0 <= trace[k].x /\ trace[k].x < scene.camera.canvas_width
        /\ 0 <= trace[k].y /\ trace[k].y < scene.camera.canvas_height

\* A triangle with a vertex to the right of and below the canvas was drawn and
\* reached the last column and the last row of the canvas.
C1_Witness ==
    /\ drawn # <<>>
    /\ LastDrawn = Model(MeshUp(1, V3(0, 0, 1)), translation(One, FNeg(One), One))
    /\ \E k \in 1..Len(trace) : trace[k].x = scene.camera.canvas_width - 1
    /\ \E k \in 1..Len(trace) : trace[k].y = scene.camera.canvas_height - 1

\* C2: a draw_mesh call changes a buffer entry only where a fragment was
\* strictly nearer than the depth stored when it was tested; a colour changes
\* only together with a lowered depth; every other entry is unchanged.
C2_OnlyDepthTestPassesMutate ==
    [][ /\ \A k \in 1..Len(trace') :
            LET e == trace'[k]
            IN  /\ e.new_color # e.old_color => FLt(e.new_depth, e.old_depth)
                /\ e.new_depth # e.old_depth => FLt(e.depth, e.old_depth)
                /\ ~FLt(e.depth, e.old_depth) =>
                       e.new_depth = e.old_depth /\ e.new_color = e.old_color
        /\ \A i \in DOMAIN depth_buffer :
            /\ (depth_buffer'[i] # depth_buffer[i] \/ pixel_buffer'[i] # pixel_buffer[i]) =>
                   \E k \in 1..Len(trace') :
                       /\ trace'[k].idx = i
                       /\ FLt(trace'[k].depth, trace'[k].old_depth)
                       /\ FLe(trace'[k].old_depth, depth_buffer[i])
            /\ pixel_buffer'[i] # pixel_buffer[i] => FLt(depth_buffer'[i], depth_buffer[i])
      ]_vars

\* A second mesh was drawn over a first: some of its fragments passed the
\* depth test and changed the colour, others failed it at equal depth.
C2_Witness ==
    /\ Len(drawn) = 2
    /\ \E k \in 1..Len(trace) : trace[k].new_color # trace[k].old_color
    /\ \E k \in 1..Len(trace) :
           FEq(trace[k].depth, trace[k].old_depth) /\ trace[k].color # trace[k].old_color

\* C3: over any sequence of draw_mesh calls no depth entry increases, and a
\* pixel at which every fragment of the call is at least as far as the stored
\* depth keeps its depth and its colour.
C3_DepthNeverIncreases ==
    [][ \A i \in DOMAIN depth_buffer :
            /\ FLe(depth_buffer'[i], depth_buffer[i])
            /\ (\A k \in 1..Len(trace') :
                    trace'[k].idx = i => FGe(trace'[k].depth, depth_buffer[i])) =>
                   (depth_buffer'[i] = depth_buffer[i] /\ pixel_buffer'[i] = pixel_buffer[i])
      ]_vars

\* A farther triangle was drawn after a nearer one of another colour, over
\* the same pixels.
C3_Witness ==
    /\ drawn = <<Model(MeshUp(1, V3(0, 1, 0)), identity),
                 Model(MeshUp(2, V3(0, 0, 1)), identity)>>
    /\ \E k \in 1..Len(trace) :
           FGt(trace[k].depth, trace[k].old_depth) /\ trace[k].color # trace[k].old_color

\* C4: drawing the last two meshes in the other order, from the same buffers,
\* gives the same depth buffer, and every entry holds the least depth among
\* the cleared value and the fragments that covered it.
C4_OrderIndependentDepth ==
    (Len(drawn) >= 2 /\ ~panicked) =>
        LET n == Len(drawn)
            swapped == [drawn EXCEPT ![n - 1] = drawn[n], ![n] = drawn[n - 1]]
            other == render(swapped, 1, scene.lights, scene.camera,
                            ClearedPixels(scene.camera), ClearedDepth(scene.camera),
                            overflow_checks)
            \* every fragment the drawn meshes produce, buffers aside
            fragments ==
                UNION { UNION { { T.frags[j] : j \in 1..Len(T.frags) } :
                                T \in { FragmentTable[<<scene.camera, scene.lights,
                                                        drawn[m]>>][ti] :
                                         ti \in 1..Len(drawn[m].mesh.face_indicies) } } :
                        m \in 1..n }
        IN  /\ ~other.panicked
            /\ other.db = depth_buffer
            /\ \A i \in DOMAIN depth_buffer :
                LET ds == { f.depth : f \in
                              { g \in fragments :
                                  g.inside /\ g.idx = i /\ ~IsNaN(g.depth) } }
                          \cup { F32_MAX }
                IN  /\ depth_buffer[i] \in ds
                    /\ \A d \in ds : FLe(depth_buffer[i], d)

\* Two coplanar triangles of different colours were drawn over the same
\* pixels: the fragments of the second have the stored depth.
C4_Witness ==
    /\ drawn = <<Model(MeshUp(1, V3(0, 0, 1)), identity),
                 Model(MeshUp(1, V3(0, 1, 0)), identity)>>
    /\ ~panicked
    /\ \E k \in 1..Len(trace) :
           FEq(trace[k].depth, trace[k].old_depth) /\ trace[k].color # trace[k].old_color

\* C5: when a mesh of two triangles that share an edge traversed in opposite
\* directions, all at one depth, is drawn on cleared buffers, every pixel of
\* the shared edge is written exactly once; when the two are the halves of a
\* square that covers the canvas, every pixel of it is written exactly once.
C5_SharedEdgeWrittenOnce ==
    (/\ Len(drawn) = 1
     /\ ~panicked
     /\ scene.camera.projection_mat = identity
     /\ LET mesh == drawn[1].mesh
            Edges(t) == { <<t.a, t.b>>, <<t.b, t.c>>, <<t.c, t.a>> }
        IN  /\ drawn[1].transform = identity
            /\ Len(mesh.face_indicies) = 2
            /\ mesh.verticies \in { QuadVerts(1, 1) }
            /\ \E e \in Edges(mesh.face_indicies[1]) :
                   <<e[2], e[1]>> \in Edges(mesh.face_indicies[2]))
    => \A i \in DOMAIN depth_buffer : Cardinality(Writes(i)) = 1

\* C6: a triangle whose signed pixel area is 0 changes no buffer entry.
C6_ZeroAreaSkipped ==
    [][ \A k \in 1..Len(trace') :
            trace'[k].area = 0 =>
                /\ trace'[k].new_depth = trace'[k].old_depth
                /\ trace'[k].new_color = trace'[k].old_color
      ]_vars

\* C7: with a singular model matrix the normals are transformed with the
\* identity, so each triangle is lit with its re-normalized mesh normals.
C7_SingularUsesIdentity ==
    (drawn # <<>> /\ ~inverse(LastDrawn.transform).some) =>
        \A ti \in 1..Len(normals) :
            LET mesh == LastDrawn.mesh
                t == mesh.face_indicies[ti]
            IN  normals[ti] = << normalized(mesh.vertex_normals[t.a_normal + 1]),
                                 normalized(mesh.vertex_normals[t.b_normal + 1]),
                                 normalized(mesh.vertex_normals[t.c_normal + 1]) >>

\* C8: draw_mesh never fails, and no triangle_edge computation overflows.
C8_NeverFails == ~panicked /\ ~overflowed

\* C9: on a 4x4 canvas with identity view and projection, one white light at
\* (0, 0, 10) and cleared buffers, drawing the counter-clockwise triangle
\* (-1,-1,-1), (1,-1,-1), (0,1,-1) leaves the pixels strictly inside the
\* projected triangle white and the pixels strictly outside it black.
C9_CcwTriangleWhite ==
    (/\ scene.camera.canvas_width = 4
     /\ scene.camera.canvas_height = 4
     /\ scene.camera.view_mat = identity
     /\ scene.camera.projection_mat = identity
     /\ scene.lights = <<WhiteLight>>
     /\ drawn = <<Model(MeshCcw, identity)>>)
    => \A x \in 0..3 : \A y \in 0..3 :
           \* the projected triangle has the pixel vertices (0,4), (4,4), (2,0)
           LET l == (2 * x) + y - 4
               r == 4 + y - (2 * x)
               b == 4 - y
               i == (y * 4) + x
           IN  /\ (l > 0 /\ r > 0 /\ b > 0) => pixel_buffer[i] = Color(255, 255, 255)
               /\ (l < 0 \/ r < 0 \/ b < 0) => pixel_buffer[i] = ColorDefault

\* C10: loading the file that save_to_ppm wrote succeeds and returns an image
\* equal to the saved one in width, height and every pixel.
C10_RoundTrip ==
    loaded.some =>
        /\ loaded.val.ok
        /\ loaded.val.val.width = image.width
        /\ loaded.val.val.height = image.height
        /\ loaded.val.val.data = image.data

\* ------------------------------------------------------------------------
\* Loading PPM files that were not written by save_to_ppm
\* ------------------------------------------------------------------------

\* Largest number of lines after the header of a loaded file.
MaxBodyLines == 2

\* The text of a file made of the given lines.
RECURSIVE TextOf(_)
TextOf(ls) ==
    IF ls = <<>> THEN <<>> ELSE Head(ls) \o <<"\n">> \o TextOf(Tail(ls))

MagicLines == { <<"P", "3">>, <<"P", "6">> }
SizeLines == { <<"1", " ", "1">>, <<"2", " ", "1">>, <<"1">>, <<"x", " ", "1">> }
MaxValueLines == { <<"2", "5", "5">>, <<" ", "1", " ">>, <<"x">> }
BodyLines == { <<"0", " ", "0", " ", "0">>, <<"2", "5", "5", " ", "1", "2", "8", " ", "7">>, <<"1", " ", "2">>, <<"1", " ", "1", " ", "1", " ", "0", " ", "0", " ", "0">>, <<"0", " ", "a", " ", "0">> }

Bodies == UNION { [1..n -> BodyLines] : n \in 0..MaxBodyLines }

\* Files with a complete header, and files that end inside the header.
PPMFiles ==
    { TextOf(<<m, s, v>> \o b) :
        m \in MagicLines, s \in SizeLines, v \in MaxValueLines, b \in Bodies }
    \cup { <<>>, TextOf(<<<<"P", "3">>>>), TextOf(<<<<"P", "3">>, <<"1", " ", "1">>>>) }

InitLoad ==
    /\ scene = Scene(CameraFlat(4, 4, Fin(1, 10), Int2F(10)), <<WhiteLight>>, Models)
    /\ overflow_checks = FALSE
    /\ pixel_buffer = ClearedPixels(scene.camera)
    /\ depth_buffer = ClearedDepth(scene.camera)
    /\ drawn = <<>>
    /\ trace = <<>>
    /\ normals = <<>>
    /\ overflowed = FALSE
    /\ panicked = FALSE
    /\ image = Image(0, 0, <<>>)
    /\ file \in { Some(text) : text \in PPMFiles }
    /\ loaded = None
    /\ operands = None
    /\ outcome = None

NextLoad == LoadPPM

SpecLoad == InitLoad /\ [][NextLoad]_vars

\* C11: load_ppm returns an error value and never fails with an out-of-range
\* access, whatever the file holds, and an image it returns has exactly
\* width * height pixels.
C11_LoadNeverFails ==
    loaded.some =>
        /\ loaded.val.ok \/ ~loaded.val.panic
        /\ loaded.val.ok =>
               Len(loaded.val.val.data) = loaded.val.val.width * loaded.val.val.height

\* ------------------------------------------------------------------------
\* mesh.rs
\* ------------------------------------------------------------------------

\* usize::MAX, the value of 0 - 1 where overflow is not checked. It is
\* represented by the largest integer of the model; every length and every
\* index read from a file is below it.
USIZE_MAX == 2147483647

\* A failure that unwinds the thread instead of returning.
PanicWith(msg) == [ok |-> FALSE, panic |-> TRUE, msg |-> msg]

\* Triangle::default()
TriangleDefault ==
    [a |-> 0, b |-> 0, c |-> 0,
     a_normal |-> 0, b_normal |-> 0, c_normal |-> 0,
     a_texture |-> 0, b_texture |-> 0, c_texture |-> 0]

\* Mesh::default()
MeshDefault ==
    [verticies |-> <<>>, face_indicies |-> <<>>, vertex_normals |-> <<>>,
     vertex_texture_coords |-> <<>>, texture |-> None]

cross(a, b) ==
    Vector3(FSub(FMul(a.y, b.z), FMul(a.z, b.y)),
            FSub(FMul(a.z, b.x), FMul(a.x, b.z)),
            FSub(FMul(a.x, b.y), FMul(a.y, b.x)))

increment_number_type(current_type) ==
    CASE current_type = "Vert" -> "TextureCoord"
      [] current_type = "TextureCoord" -> "Normal"
      [] current_type = "Normal" -> "Vert"

\* The field of a Triangle that push_number_into_face assigns.
FaceField(idx, num_type) ==
    CASE num_type = "Vert" -> <<"a", "b", "c">>[idx + 1]
      [] num_type = "Normal" -> <<"a_normal", "b_normal", "c_normal">>[idx + 1]
      [] num_type = "TextureCoord" -> <<"a_texture", "b_texture", "c_texture">>[idx + 1]

\* push_number_into_face: the face after the call, the Option it returns,
\* and whether `num - 1` failed an overflow check.
push_number_into_face(face, idx, num, num_type, checks) ==
    IF idx > 2 THEN [face |-> face, ret |-> None, panic |-> FALSE]
    ELSE IF num = 0 /\ checks THEN [face |-> face, ret |-> None, panic |-> TRUE]
    ELSE [face |-> [face EXCEPT ![FaceField(idx, num_type)] =
                       IF num = 0 THEN USIZE_MAX ELSE num - 1],
          ret |-> Some(<<>>), panic |-> FALSE]

\* The local variables of parse_face before the first character; out tells
\* whether the loop still runs ("run"), returned None ("none") or failed an
\* overflow check ("panic").
FaceStart ==
    [state |-> "Ready", num_type |-> "Vert", vert_idx |-> 0, tmp_num_str |-> <<>>,
     ret |-> TriangleDefault, seen_normals |-> FALSE, out |-> "run"]

\* push_number_into_face(&mut ret, vert_idx, tmp_num_str.parse::<usize>().ok()?,
\* num_type); the Option the call returns is dropped.
FacePush(p, num, checks) ==
    IF ~num.ok THEN [p EXCEPT !.out = "none"]
    ELSE IF push_number_into_face(p.ret, p.vert_idx, num.val, p.num_type, checks).panic
    THEN [p EXCEPT !.out = "panic"]
    ELSE [p EXCEPT !.ret =
             push_number_into_face(p.ret, p.vert_idx, num.val, p.num_type, checks).face]

\* A character that starts a number, in the states Ready and Slash.
FaceNumberStart(p, c) == [p EXCEPT !.tmp_num_str = <<c>>, !.state = "Number"]

\* The state Number after the number was pushed at a "/".
FaceAfterSlash(p) ==
    IF p.out # "run" THEN p
    ELSE [p EXCEPT !.num_type = increment_number_type(p.num_type), !.state = "Slash"]

\* The state Number after the number was pushed at a whitespace.
FaceAfterGroup(p, was) ==
    IF p.out # "run" THEN p
    ELSE [p EXCEPT !.seen_normals = was.seen_normals \/ was.num_type = "Normal",
                   !.num_type = "Vert", !.state = "Ready", !.vert_idx = was.vert_idx + 1]

\* One iteration of the loop of parse_face over the characters.
FaceChar(p, c, checks) ==
    CASE p.state = "Ready" ->
           IF IsDigit(c) THEN FaceNumberStart(p, c)
           ELSE IF IsWhitespace(c) \/ c = "f" THEN p
           ELSE [p EXCEPT !.out = "none"]
      [] p.state = "Number" ->
           IF IsDigit(c) THEN [p EXCEPT !.tmp_num_str = Append(p.tmp_num_str, c)]
           ELSE IF c = "/" THEN FaceAfterSlash(FacePush(p, parse_usize(p.tmp_num_str), checks))
           ELSE IF IsWhitespace(c)
           THEN FaceAfterGroup(FacePush(p, parse_usize(p.tmp_num_str), checks), p)
           ELSE [p EXCEPT !.out = "none"]
      [] p.state = "Slash" ->
           IF IsDigit(c) THEN FaceNumberStart(p, c)
           ELSE IF c = "/"
           THEN [p EXCEPT !.num_type = increment_number_type(p.num_type), !.state = "Ready"]
           ELSE [p EXCEPT !.out = "none"]

\* for c in face_str.chars(), from character i on.
RECURSIVE FaceChars(_, _, _, _)
FaceChars(p, face_str, i, checks) ==
    IF p.out # "run" \/ i > Len(face_str) THEN p
    ELSE FaceChars(FaceChar(p, face_str[i], checks), face_str, i + 1, checks)

\* The number still held when the characters end.
FaceLast(p, checks) ==
    IF p.out = "run" /\ p.state = "Number" /\ p.tmp_num_str # <<>>
    THEN FacePush(p, parse_usize(p.tmp_num_str), checks)
    ELSE p

\* The default normal indices, and the value parse_face returns.
FaceEnd(p) ==
    IF p.out = "panic" THEN PanicWith("attempt to subtract with overflow")
    ELSE IF p.out = "none" THEN Ok(None)
    ELSE IF ~p.seen_normals
    THEN Ok(Some([p.ret EXCEPT !.a_normal = p.ret.a, !.b_normal = p.ret.b,
                               !.c_normal = p.ret.c]))
    ELSE Ok(Some(p.ret))

\* parse_face: Ok(Some(triangle)), Ok(None), or a failed overflow check.
parse_face(face_str, checks) ==
    FaceEnd(FaceLast(FaceChars(FaceStart, face_str, 1, checks), checks))

\* File::open and the lines of a file of the disk.
OpenFile(disk, path) ==
    IF path \in DOMAIN disk THEN Ok(lines(disk[path]))
    ELSE Err("No such file or directory")

\* Image::load_ppm(path)
LoadPPMAt(disk, path) ==
    IF path \in DOMAIN disk THEN load_ppm(disk[path])
    ELSE Err("No such file or directory")

\* The loop of load_texture_from_material_lib, from line li on.
RECURSIVE MaterialLines(_, _, _)
MaterialLines(disk, ls, li) ==
    IF li > Len(ls) THEN Err("Obj file did not match expected format")
    ELSE IF split_whitespace(ls[li]) # <<>> /\ split_whitespace(ls[li])[1] = <<"m", "a", "p", "_", "K", "d">>
    THEN (IF Len(split_whitespace(ls[li])) < 2 THEN Panic
          ELSE LoadPPMAt(disk, split_whitespace(ls[li])[2]))
    ELSE MaterialLines(disk, ls, li + 1)

load_texture_from_material_lib(disk, mat_path) ==
    IF ~OpenFile(disk, mat_path).ok THEN OpenFile(disk, mat_path)
    ELSE MaterialLines(disk, OpenFile(disk, mat_path).val, 1)

\* split_line[1].parse::<f32>()?, ..., split_line[n].parse::<f32>()?, from
\* the i-th number on.
RECURSIVE LineNumbers(_, _, _, _)
LineNumbers(split_line, i, n, acc) ==
    IF i > n THEN Ok(acc)
    ELSE IF Len(split_line) < i + 1 THEN Panic
    ELSE IF ~parse_f32(split_line[i + 1]).ok THEN parse_f32(split_line[i + 1])
    ELSE LineNumbers(split_line, i + 1, n, Append(acc, parse_f32(split_line[i + 1]).val))

\* The state of the loop of from_obj_file: the mesh, the faces of each
\* vertex, should_compute_normals, and the failure that ended the loop.
ObjStart ==
    [ret |-> MeshDefault, triangle_to_faces |-> <<>>, should_compute_normals |-> TRUE,
     out |-> Ok(<<>>)]

ObjFail(m, failure) == [m EXCEPT !.out = failure]

\* The arms "v", "vn" and "vt" after the numbers were parsed.
ObjVertex(m, nums) ==
    IF ~nums.ok THEN ObjFail(m, nums)
    ELSE [m EXCEPT !.ret.verticies = Append(@, Vec3(nums.val))]

ObjNormal(m, nums) ==
    IF ~nums.ok THEN ObjFail(m, nums)
    ELSE [m EXCEPT !.ret.vertex_normals = Append(@, normalized(Vec3(nums.val)))]

ObjTexCoord(m, nums) ==
    IF ~nums.ok THEN ObjFail(m, nums)
    ELSE [m EXCEPT !.ret.vertex_texture_coords =
             Append(@, Vector3(nums.val[1], nums.val[2], Zero))]

\* triangle_to_faces after face_index was stored for the vertex t.
FaceStored(triangle_to_faces, t, face_index) ==
    IF t \in DOMAIN triangle_to_faces
    THEN [triangle_to_faces EXCEPT ![t] = Append(@, face_index)]
    ELSE triangle_to_faces @@ (t :> <<face_index>>)

\* The arm "f" after the face was pushed.
ObjFaceStored(m, face_ref, face_index, same) ==
    IF m.should_compute_normals /\ same
    THEN [m EXCEPT !.ret.face_indicies = Append(@, face_ref),
                   !.triangle_to_faces =
                       FaceStored(FaceStored(FaceStored(@, face_ref.a, face_index),
                                             face_ref.b, face_index),
                                  face_ref.c, face_index)]
    ELSE [m EXCEPT !.ret.face_indicies = Append(@, face_ref),
                   !.should_compute_normals = FALSE]

\* The arm "f".
ObjFace(m, face) ==
    IF ~face.ok THEN ObjFail(m, face)
    ELSE IF ~face.val.some THEN ObjFail(m, Err("Obj file did not match expected format"))
    ELSE ObjFaceStored(m, face.val.val, Len(m.ret.face_indicies),
                       /\ face.val.val.a = face.val.val.a_normal
                       /\ face.val.val.b = face.val.val.b_normal
                       /\ face.val.val.c = face.val.val.c_normal)

\* The arm "mtllib"; the file is in the current directory.
ObjMaterial(m, texture) ==
    IF ~texture.ok THEN ObjFail(m, texture)
    ELSE [m EXCEPT !.ret.texture = Some(texture.val)]

\* match split_line[0] { ... }
ObjArm(m, disk, line, split_line, checks) ==
    CASE split_line[1] = <<"v">> -> ObjVertex(m, LineNumbers(split_line, 1, 3, <<>>))
      [] split_line[1] = <<"v", "n">> -> ObjNormal(m, LineNumbers(split_line, 1, 3, <<>>))
      [] split_line[1] = <<"v", "t">> -> ObjTexCoord(m, LineNumbers(split_line, 1, 2, <<>>))
      [] split_line[1] = <<"f">> -> ObjFace(m, parse_face(line, checks))
      [] split_line[1] = <<"m", "t", "l", "l", "i", "b">> ->
           IF Len(split_line) < 2 THEN ObjFail(m, Panic)
           ELSE ObjMaterial(m, load_texture_from_material_lib(disk, split_line[2]))
      [] OTHER -> m

\* One iteration of the loop over the lines: split_line[0] is read without
\* a test for an empty line.
ObjLine(m, disk, line, checks) ==
    IF split_whitespace(line) = <<>> THEN ObjFail(m, Panic)
    ELSE ObjArm(m, disk, line, split_whitespace(line), checks)

\* for maybe_line in obj_reader.lines(), from line li on.
RECURSIVE ObjLines(_, _, _, _, _)
ObjLines(m, disk, ls, li, checks) ==
    IF ~m.out.ok \/ li > Len(ls) THEN m
    ELSE ObjLines(ObjLine(m, disk, ls[li], checks), disk, ls, li + 1, checks)

\* The normal of one face of the list of a vertex.
FaceNormal(ret, face_idx) ==
    normalized(cross(VSub(ret.verticies[ret.face_indicies[face_idx + 1].c + 1],
                          ret.verticies[ret.face_indicies[face_idx + 1].a + 1]),
                     VSub(ret.verticies[ret.face_indicies[face_idx + 1].b + 1],
                          ret.verticies[ret.face_indicies[face_idx + 1].a + 1])))

\* .fold(Vector3::default(), |acc, norm| acc + norm), from entry i on.
RECURSIVE FoldNormals(_, _, _, _)
FoldNormals(ret, face_idx_list, i, acc) ==
    IF i > Len(face_idx_list) THEN acc
    ELSE FoldNormals(ret, face_idx_list, i + 1,
                     VAdd(acc, FaceNormal(ret, face_idx_list[i])))

\* The vertex indices of the stored faces are all below verticies.len().
NormalsInRange(ret, triangle_to_faces) ==
    \A t \in DOMAIN triangle_to_faces : t < Len(ret.verticies)

\* ComputeNormals without the normalization of the sum.
ComputeNormalsSummed(m) ==
    IF ~m.should_compute_normals THEN Ok(m.ret)
    ELSE IF ~NormalsInRange(m.ret, m.triangle_to_faces) THEN Panic
    ELSE Ok([m.ret EXCEPT !.vertex_normals =
                Array([i \in 1..Len(m.ret.verticies) |->
                          IF (i - 1) \in DOMAIN m.triangle_to_faces
                          THEN FoldNormals(m.ret, m.triangle_to_faces[i - 1], 1, ORIGIN)
                          ELSE ORIGIN])])

\* if should_compute_normals { ... }: every entry of the map reads the
\* vertices of its faces and writes vertex_normals[triangle_idx].
ComputeNormals(m) ==
    IF ~m.should_compute_normals THEN Ok(m.ret)
    ELSE IF ~NormalsInRange(m.ret, m.triangle_to_faces) THEN Panic
    ELSE Ok([m.ret EXCEPT !.vertex_normals =
                Array([i \in 1..Len(m.ret.verticies) |->
                          IF (i - 1) \in DOMAIN m.triangle_to_faces
                          THEN normalized(FoldNormals(m.ret, m.triangle_to_faces[i - 1],
                                                      1, ORIGIN))
                          ELSE ORIGIN])])

ObjFinish(m) == IF ~m.out.ok THEN m.out ELSE ComputeNormals(m)

\* Mesh::from_obj_file on the file at path of the disk.
from_obj_file(disk, path, checks) ==
    IF ~OpenFile(disk, path).ok THEN OpenFile(disk, path)
    ELSE ObjFinish(ObjLines(ObjStart, disk, OpenFile(disk, path).val, 1, checks))

\* ------------------------------------------------------------------------
\* Loading OBJ files
\* ------------------------------------------------------------------------

\* Largest number of lines after the vertices of a loaded OBJ file.
MaxObjLines == 2

\* The files next to the OBJ file: a material library that names a texture,
\* and the texture, a PPM file of one red pixel.
Disk ==
    (<<"m">> :> TextOf(<<<<"m", "a", "p", "_", "K", "d", " ", "t">>>>))
    @@ (<<"t">> :> TextOf(<<<<"P", "3">>, <<"1", " ", "1">>, <<"2", "5", "5">>, <<"2", "5", "5", " ", "0", " ", "0">>>>))

\* The path of the OBJ file.
ObjPath == <<"o">>

\* Three vertices, or none.
VertexLines == { <<>>, <<<<"v", " ", "0", " ", "0", " ", "0">>, <<"v", " ", "1", " ", "0", " ", "0">>, <<"v", " ", "0", " ", "1", " ", "0">>>> }

\* Lines that from_obj_file is expected to report: a blank line, too few
\* numbers, a material library without name, a face with index 0.
MalformedLines == { <<>>, <<"v", " ", "1", " ", "2">>, <<"v", "n", " ", "1">>, <<"v", "t", " ", "1">>, <<"m", "t", "l", "l", "i", "b">>, <<"f", " ", "0", " ", "1", " ", "2">> }

WellFormedLines ==
    { <<"v", "n", " ", "0", " ", "0", " ", "1">>, <<"v", "t", " ", "0", " ", "1">>, <<"m", "t", "l", "l", "i", "b", " ", "m">>, <<"f", " ", "1", " ", "2", " ", "3">>, <<"f", " ", "1", " ", "2", " ", "4">>, <<"f", " ", "1", "/", "/", "1", " ", "2", "/", "/", "1", " ", "3", "/", "/", "1">>,
      <<"f", " ", "1", "/", "1", "/", "1", " ", "2", "/", "1", "/", "1", " ", "3", "/", "1", "/", "1">>, <<"o", " ", "c">> }

ObjFiles ==
    { TextOf(vs \o ls) :
        vs \in VertexLines,
        ls \in UNION { [1..n -> MalformedLines \cup WellFormedLines] : n \in 0..MaxObjLines } }

InitObj ==
    /\ scene = Scene(CameraFlat(4, 4, Fin(1, 10), Int2F(10)), <<WhiteLight>>, Models)
    /\ overflow_checks \in BOOLEAN
    /\ pixel_buffer = ClearedPixels(scene.camera)
    /\ depth_buffer = ClearedDepth(scene.camera)
    /\ drawn = <<>>
    /\ trace = <<>>
    /\ normals = <<>>
    /\ overflowed = FALSE
    /\ panicked = FALSE
    /\ image = Image(0, 0, <<>>)
    /\ file \in { Some(text) : text \in ObjFiles }
    /\ loaded = None
    /\ operands = None
    /\ outcome = None

\* Mesh::from_obj_file(path)
LoadObj ==
    /\ file.some
    /\ ~loaded.some
    /\ loaded' = Some(from_obj_file(Disk @@ (ObjPath :> file.val), ObjPath, overflow_checks))
    /\ UNCHANGED <<scene, overflow_checks, pixel_buffer, depth_buffer, drawn, trace,
                   normals, overflowed, panicked, image, file, operands, outcome>>

NextObj == LoadObj

SpecObj == InitObj /\ [][NextObj]_vars

\* The loader returned a value, Ok or Err.
Returned(result) == result.ok \/ ~result.panic

\* C12: from_obj_file returns for every file, and returns an error for a file
\* with a `v`, `vn` or `vt` line with too few numbers, a `mtllib` line without
\* a file name, or a face that uses index 0; a blank line is an error or is
\* ignored.
C12_MalformedLinesReported ==
    loaded.some =>
        /\ Returned(loaded.val)
        /\ (\E l \in MalformedLines \ {<<>>} :
                \E i \in 1..Len(lines(file.val)) : lines(file.val)[i] = l)
           => ~loaded.val.ok

\* The index invariant of a mesh that draw_mesh relies on.
IndexInvariant(mesh) ==
    \A i \in 1..Len(mesh.face_indicies) :
        LET t == mesh.face_indicies[i]
        IN  /\ \A v \in {t.a, t.b, t.c} : v < Len(mesh.verticies)
            /\ \A n \in {t.a_normal, t.b_normal, t.c_normal} : n < Len(mesh.vertex_normals)
            /\ mesh.texture.some =>
                   \A x \in {t.a_texture, t.b_texture, t.c_texture} :
                       x < Len(mesh.vertex_texture_coords)

\* C13: every mesh that from_obj_file returns satisfies the index invariant.
C13_LoadedMeshIndexInvariant ==
    (loaded.some /\ loaded.val.ok) => IndexInvariant(loaded.val.val)

\* ------------------------------------------------------------------------
\* Parsing the face lines of an OBJ file
\* ------------------------------------------------------------------------

\* Largest number of vertex groups of a face line.
MaxGroups == 4

\* Vertex groups in the forms v, v/vt, v//vn and v/vt/vn, a group with
\* three consecutive slashes, and a group with index 0.
FaceGroups == { <<"1">>, <<"2", "/", "5">>, <<"3", "/", "/", "7">>, <<"4", "/", "5", "/", "6">>, <<"1", "/", "/", "/", "5">>, <<"0", "/", "1">> }

\* The groups after "f", each preceded by a space.
RECURSIVE JoinGroups(_)
JoinGroups(gs) ==
    IF gs = <<>> THEN <<>> ELSE <<" ">> \o Head(gs) \o JoinGroups(Tail(gs))

FaceLines ==
    { <<"f">> \o JoinGroups(gs) : gs \in UNION { [1..n -> FaceGroups] : n \in 2..MaxGroups } }

InitFace ==
    /\ scene = Scene(CameraFlat(4, 4, Fin(1, 10), Int2F(10)), <<WhiteLight>>, Models)
    /\ overflow_checks \in BOOLEAN
    /\ pixel_buffer = ClearedPixels(scene.camera)
    /\ depth_buffer = ClearedDepth(scene.camera)
    /\ drawn = <<>>
    /\ trace = <<>>
    /\ normals = <<>>
    /\ overflowed = FALSE
    /\ panicked = FALSE
    /\ image = Image(0, 0, <<>>)
    /\ file \in { Some(line) : line \in FaceLines }
    /\ loaded = None
    /\ operands = None
    /\ outcome = None

\* parse_face(&line)
ParseFace ==
    /\ file.some
    /\ ~loaded.some
    /\ loaded' = Some(parse_face(file.val, overflow_checks))
    /\ UNCHANGED <<scene, overflow_checks, pixel_buffer, depth_buffer, drawn, trace,
                   normals, overflowed, panicked, image, file, operands, outcome>>

NextFace == ParseFace

SpecFace == InitFace /\ [][NextFace]_vars

\* The fields of a vertex group: the runs of characters between its slashes.
GroupFields(g) ==
    LET cuts == { i \in 1..Len(g) : g[i] = "/" }
        n == Cardinality(cuts)
        StartOf(k) == IF k = 1 THEN 1 ELSE Nth(cuts, k - 1) + 1
        StopOf(k) == IF k = n + 1 THEN Len(g) ELSE Nth(cuts, k) - 1
    IN  Array([k \in 1..(n + 1) |-> SubSeq(g, StartOf(k), StopOf(k))])

IsIndex(field) == field # <<>> /\ \A i \in 1..Len(field) : IsDigit(field[i])

\* The group has one of the forms v, v/vt, v//vn, v/vt/vn.
IsGroupForm(fields) ==
    /\ Len(fields) \in 1..3
    /\ IsIndex(fields[1])
    /\ Len(fields) = 2 => IsIndex(fields[2])
    /\ Len(fields) = 3 => (fields[2] = <<>> \/ IsIndex(fields[2])) /\ IsIndex(fields[3])

\* The 1-based indices of a group are all at least 1.
OneBased(fields) == \A k \in 1..Len(fields) : IsIndex(fields[k]) => DigitsValue(fields[k]) >= 1

GivesTexture(fields) == Len(fields) >= 2 /\ fields[2] # <<>>
GivesNormal(fields) == Len(fields) = 3

\* The triangle t carries the indices of the three groups gs.
CarriesIndices(t, gs) ==
    /\ <<t.a, t.b, t.c>> = [k \in 1..3 |-> DigitsValue(gs[k][1]) - 1]
    /\ \A k \in 1..3 :
           GivesTexture(gs[k]) =>
               <<t.a_texture, t.b_texture, t.c_texture>>[k] = DigitsValue(gs[k][2]) - 1
    /\ \A k \in 1..3 :
           GivesNormal(gs[k]) =>
               <<t.a_normal, t.b_normal, t.c_normal>>[k] = DigitsValue(gs[k][3]) - 1
    /\ (\A k \in 1..3 : ~GivesNormal(gs[k])) =>
           <<t.a_normal, t.b_normal, t.c_normal>> = <<t.a, t.b, t.c>>

\* The vertex groups of a face line, each split into its fields.
LineGroups(line) ==
    Array([k \in 1..(Len(split_whitespace(line)) - 1) |->
              GroupFields(split_whitespace(line)[k + 1])])

\* C18: parse_face returns the triangle of the indices minus one for a line of
\* three groups of the forms v, v/vt, v//vn, v/vt/vn with indices from 1 on,
\* with the normal indices equal to the vertex indices when no group gives a
\* normal, and returns None for a line that does not have three groups of
\* these forms.
C18_ParseFaceForms ==
    loaded.some =>
        LET gs == LineGroups(file.val)
            formed == \A k \in 1..Len(gs) : IsGroupForm(gs[k])
        IN  /\ (Len(gs) = 3 /\ formed /\ \A k \in 1..3 : OneBased(gs[k]))
               => /\ loaded.val.ok
                  /\ loaded.val.val.some
                  /\ CarriesIndices(loaded.val.val.val, gs)
            /\ (Len(gs) # 3 \/ ~formed) => loaded.val = Ok(None)

\* ------------------------------------------------------------------------
\* scene.rs: the lexer and the parser of the scene files
\* ------------------------------------------------------------------------

Letters ==
    { "a", "b", "c", "d", "e", "f", "g", "h", "i", "j", "k", "l", "m", "n", "o", "p", "q", "r", "s", "t", "u", "v", "w", "x", "y", "z" }
    \cup { "A", "B", "C", "D", "E", "F", "G", "H", "I", "J", "K", "L", "M", "N", "O", "P", "Q", "R", "S", "T", "U", "V", "W", "X", "Y", "Z" }

\* char::is_ascii_alphabetic and char::is_ascii_alphanumeric
IsAlphabetic(c) == c \in Letters
IsAlphanumeric(c) == IsAlphabetic(c) \/ IsDigit(c)

\* XMLToken
Token(t) == [t |-> t]
NumberToken(v) == [t |-> "Number", v |-> v]
NameToken(s) == [t |-> "Name", s |-> s]
QuoteToken(s) == [t |-> "Quote", s |-> s]

\* The arguments of lex_scene_file_recursively: the tokens, the state, the
\* accumulator, and the position in the text of the first character of the
\* remaining text; ok is FALSE once the function has returned None.
LexStart == [tokens |-> <<>>, state |-> "Ready", accumulator |-> <<>>, pos |-> 1, ok |-> TRUE]

\* remaining_text = &text[1..], with the new state and the token pushed.
LexConsume(L, state) == [L EXCEPT !.state = state, !.pos = L.pos + 1]
LexPush(L, state, token) ==
    [L EXCEPT !.state = state, !.pos = L.pos + 1, !.tokens = Append(L.tokens, token)]
LexAccumulate(L, state, c) ==
    [L EXCEPT !.state = state, !.pos = L.pos + 1, !.accumulator = Append(L.accumulator, c)]
LexFail(L) == [L EXCEPT !.ok = FALSE]

\* The end of a number: the accumulator is parsed and the character is not
\* consumed.
LexNumberEnd(L, number) ==
    IF ~number.ok THEN LexFail(L)
    ELSE [L EXCEPT !.state = "Ready", !.accumulator = <<>>,
                   !.tokens = Append(L.tokens, NumberToken(number.val))]

\* One call of lex_scene_file_recursively on a text that starts with c.
LexChar(L, c) ==
    CASE L.state = "Ready" ->
           IF c = "<" THEN LexConsume(L, "StartBracket")
           ELSE IF c = "/" THEN LexConsume(L, "Slash")
           ELSE IF c = ">" THEN LexPush(L, "Ready", Token("CloseBracket"))
           ELSE IF c = "=" THEN LexPush(L, "Ready", Token("Equals"))
           ELSE IF c = "\"" THEN LexConsume(L, "InQuote")
           ELSE IF IsDigit(c) \/ c = "-" THEN LexAccumulate(L, "InNumber", c)
           ELSE IF IsAlphabetic(c) THEN LexAccumulate(L, "InName", c)
           ELSE IF IsWhitespace(c) THEN LexConsume(L, "Ready")
           ELSE LexFail(L)
      [] L.state = "Slash" ->
           IF c = ">" THEN LexPush(L, "Ready", Token("CloseSlashBracket"))
           ELSE IF IsWhitespace(c) THEN LexConsume(L, "Slash")
           ELSE LexFail(L)
      [] L.state = "StartBracket" ->
           IF c = "/" THEN LexPush(L, "Ready", Token("OpenSlashBracket"))
           ELSE [L EXCEPT !.state = "Ready", !.tokens = Append(L.tokens, Token("OpenBracket"))]
      [] L.state = "InName" ->
           IF IsAlphanumeric(c) THEN LexAccumulate(L, "InName", c)
           ELSE [L EXCEPT !.state = "Ready", !.accumulator = <<>>,
                          !.tokens = Append(L.tokens, NameToken(L.accumulator))]
      [] L.state = "InNumber" ->
           IF IsDigit(c) \/ c = "." THEN LexAccumulate(L, "InNumber", c)
           ELSE LexNumberEnd(L, parse_f32(L.accumulator))
      [] L.state = "InQuote" ->
           IF c = "\""
           THEN [L EXCEPT !.state = "Ready", !.accumulator = <<>>, !.pos = L.pos + 1,
                          !.tokens = Append(L.tokens, QuoteToken(L.accumulator))]
           ELSE LexAccumulate(L, "InQuote", c)

\* One call of lex_scene_file_recursively; a call that has returned stays as
\* it is.
LexCall(text, L) ==
    IF ~L.ok \/ L.pos > Len(text) THEN L ELSE LexChar(L, text[L.pos])

\* Eight calls in a row.
LexCalls(text, L) ==
    LexCall(text, LexCall(text, LexCall(text, LexCall(text,
        LexCall(text, LexCall(text, LexCall(text, LexCall(text, L))))))))

RECURSIVE lex_scene_file_recursively(_, _)
lex_scene_file_recursively(text, L) ==
    IF ~L.ok THEN None
    ELSE IF L.pos > Len(text) THEN Some(L.tokens)
    ELSE lex_scene_file_recursively(text, LexCalls(text, L))

lex_scene_file(raw_text) == lex_scene_file_recursively(raw_text, LexStart)

\* XMLNode
XMLNode(name, data, children) ==
    [name |-> name, attributes |-> <<>>, data |-> data, children |-> children]

XMLNodeDefault == XMLNode(<<>>, None, <<>>)

\* TokenizedFile::peek at the index current_index: the kind of the token, or "None".
PeekKind(tokens, current_index) == IF current_index >= Len(tokens) THEN "None" ELSE tokens[current_index + 1].t

\* The parsers return Ok with the index after the tokens they consumed and
\* the node they filled, or Err with the index restored.
Parsed(current_index, node) == Ok([current_index |-> current_index, node |-> node])

\* <tag-start> ::= "<" <name> ">"
parse_tag_start(tokens, current_index, node) ==
    IF PeekKind(tokens, current_index) # "OpenBracket" THEN Err("tag did not start with open bracket")
    ELSE IF PeekKind(tokens, current_index + 1) # "Name"
    THEN Err("tag does not contain a name inside brackets")
    ELSE IF PeekKind(tokens, current_index + 2) # "CloseBracket"
    THEN Err("tag did not end with a close bracket")
    ELSE Parsed(current_index + 3, [node EXCEPT !.name = tokens[current_index + 2].s])

\* <tag-start-and-end> ::= "<" <name> "/>"
parse_tag_start_and_end(tokens, current_index, node) ==
    IF PeekKind(tokens, current_index) # "OpenBracket" THEN Err("tag did not start with open bracket")
    ELSE IF PeekKind(tokens, current_index + 1) # "Name"
    THEN Err("tag does not contain a name inside brackets")
    ELSE IF PeekKind(tokens, current_index + 2) # "CloseSlashBracket"
    THEN Err("tag did not end with a close (or close slash />) bracket")
    ELSE Parsed(current_index + 3, [node EXCEPT !.name = tokens[current_index + 2].s])

\* <tag-end> ::= "</" <name> ">"
parse_tag_end(tokens, current_index, node) ==
    IF PeekKind(tokens, current_index) # "OpenSlashBracket"
    THEN Err("closing tag does not contain a name inside brackets")
    ELSE IF PeekKind(tokens, current_index + 1) # "Name"
    THEN Err("closing tag does not contain a name inside brackets")
    ELSE IF tokens[current_index + 2].s # node.name
    THEN Err("closing tag name does not match opening tag name")
    ELSE IF PeekKind(tokens, current_index + 2) # "CloseBracket"
    THEN Err("tag did not end with a close bracket")
    ELSE Parsed(current_index + 3, node)

\* node.children.push(child)
WithChild(node, child) == [node EXCEPT !.children = Append(node.children, child)]

RECURSIVE parse_xml_node(_, _, _)
RECURSIVE parse_tag_content(_, _, _)

\* parse_xml_node after parse_tag_end.
XmlAfterEnd(node, end) ==
    IF ~end.ok THEN end ELSE Parsed(end.val.current_index, WithChild(node, end.val.node))

\* parse_xml_node after parse_tag_content.
XmlAfterContent(tokens, node, content) ==
    IF ~content.ok THEN content
    ELSE XmlAfterEnd(node, parse_tag_end(tokens, content.val.current_index, content.val.node))

\* parse_xml_node after parse_tag_start_and_end, when parse_tag_start failed.
XmlAfterStartAndEnd(node, single) ==
    IF ~single.ok THEN single ELSE Parsed(single.val.current_index, WithChild(node, single.val.node))

\* parse_xml_node after parse_tag_start.
XmlAfterStart(tokens, current_index, node, start) ==
    IF ~start.ok
    THEN XmlAfterStartAndEnd(node, parse_tag_start_and_end(tokens, current_index, XMLNodeDefault))
    ELSE XmlAfterContent(tokens, node, parse_tag_content(tokens, start.val.current_index, start.val.node))

\* <tag> ::= <tag-start> <tag-content> <tag-end> | <tag-start-and-end>
parse_xml_node(tokens, current_index, node) ==
    IF Len(tokens) = current_index THEN Parsed(current_index, node)
    ELSE XmlAfterStart(tokens, current_index, node, parse_tag_start(tokens, current_index, XMLNodeDefault))

\* parse_tag_content after the nested parse_xml_node.
ContentAfterTag(tokens, nested) ==
    IF ~nested.ok THEN nested
    ELSE parse_tag_content(tokens, nested.val.current_index, nested.val.node)

\* <tag-content> = <number> <tag-content> | <quote> <tag-content>
\*               | <tag> <tag-content> | ""
parse_tag_content(tokens, current_index, node) ==
    CASE PeekKind(tokens, current_index) = "Number" ->
           parse_tag_content(tokens, current_index + 1,
                             WithChild(node, XMLNode(<<>>, Some(tokens[current_index + 1].v), <<>>)))
      [] PeekKind(tokens, current_index) = "Quote" ->
           parse_tag_content(tokens, current_index + 1,
                             WithChild(node, XMLNode(tokens[current_index + 1].s, None, <<>>)))
      [] PeekKind(tokens, current_index) = "OpenBracket" ->
           ContentAfterTag(tokens, parse_xml_node(tokens, current_index, node))
      [] OTHER -> Parsed(current_index, node)

\* parse_scene_file after parse_xml_node on the node named "file".
ParsedFile(root) == IF ~root.ok THEN root ELSE Ok(root.val.node)

\* parse_scene_file after the lexer.
ParseTokens(tokenized_file) ==
    IF ~tokenized_file.some THEN Err("unsupported character in file")
    ELSE ParsedFile(parse_xml_node(tokenized_file.val, 0, XMLNode(<<"f", "i", "l", "e">>, None, <<>>)))

parse_scene_file(raw_text) == ParseTokens(lex_scene_file(raw_text))

\* ------------------------------------------------------------------------
\* scene.rs: building the scene from the parsed file
\* ------------------------------------------------------------------------

\* std::f32::consts::PI, within one unit in the last place, and f32::to_radians.
PI == Fin(355, 113)
HalfPi == FDiv(PI, Int2F(2))
to_radians(degrees) == FMul(degrees, FDiv(PI, Int2F(180)))

\* The quarter turn nearest to the finite angle a, and what is left of a
\* after that many quarter turns.
Quadrant(a) == FAdd(FDiv(a, HalfPi), Half).n \div FAdd(FDiv(a, HalfPi), Half).d
Reduced(a) == FSub(a, FMul(Int2F(Quadrant(a)), HalfPi))

\* Sine and cosine to the third order in the argument.
SinSeries(r) == FSub(r, FDiv(FMul(FMul(r, r), r), Int2F(6)))
CosSeries(r) == FSub(One, FDiv(FMul(r, r), Int2F(2)))

\* f32::sin and f32::cos: the series of the angle reduced by quarter turns;
\* f32::tan to the third order in the argument.
FSin(a) ==
    IF ~IsFinite(a) THEN NaN
    ELSE CASE Quadrant(a) % 4 = 0 -> SinSeries(Reduced(a))
           [] Quadrant(a) % 4 = 1 -> CosSeries(Reduced(a))
           [] Quadrant(a) % 4 = 2 -> FNeg(SinSeries(Reduced(a)))
           [] Quadrant(a) % 4 = 3 -> FNeg(CosSeries(Reduced(a)))
FCos(a) ==
    IF ~IsFinite(a) THEN NaN
    ELSE CASE Quadrant(a) % 4 = 0 -> CosSeries(Reduced(a))
           [] Quadrant(a) % 4 = 1 -> FNeg(SinSeries(Reduced(a)))
           [] Quadrant(a) % 4 = 2 -> FNeg(CosSeries(Reduced(a)))
           [] Quadrant(a) % 4 = 3 -> SinSeries(Reduced(a))
FTan(a) == FAdd(a, FDiv(FMul(FMul(a, a), a), Int2F(3)))

\* Mat4::euler_angles after the six cosines and sines.
EulerFrom(cb, cp, ch, sb, sp, sh) ==
    [identity EXCEPT
        ![(0 * 4) + 0 + 1] = FAdd(FMul(ch, cb), FMul(FMul(sh, sp), sb)),
        ![(1 * 4) + 0 + 1] = FMul(sb, cp),
        ![(2 * 4) + 0 + 1] = FAdd(FMul(FNeg(sh), cb), FMul(FMul(ch, sp), sb)),
        ![(0 * 4) + 1 + 1] = FAdd(FMul(FNeg(ch), sb), FMul(FMul(sh, sp), cb)),
        ![(1 * 4) + 1 + 1] = FMul(cb, cp),
        ![(2 * 4) + 1 + 1] = FAdd(FMul(sb, sh), FMul(FMul(ch, sp), cb)),
        ![(0 * 4) + 2 + 1] = FMul(sh, cp),
        ![(1 * 4) + 2 + 1] = FNeg(sp),
        ![(2 * 4) + 2 + 1] = FMul(ch, cp)]

euler_angles(roll, pitch, yaw) ==
    EulerFrom(FCos(roll), FCos(pitch), FCos(yaw), FSin(roll), FSin(pitch), FSin(yaw))

\* Mat4::look_at after f, s and u.
LookAtMatrix(eye, f, s, u) ==
    [identity EXCEPT
        ![(0 * 4) + 0 + 1] = s.x, ![(0 * 4) + 1 + 1] = s.y, ![(0 * 4) + 2 + 1] = s.z,
        ![(1 * 4) + 0 + 1] = u.x, ![(1 * 4) + 1 + 1] = u.y, ![(1 * 4) + 2 + 1] = u.z,
        ![(2 * 4) + 0 + 1] = f.x, ![(2 * 4) + 1 + 1] = f.y, ![(2 * 4) + 2 + 1] = f.z,
        ![(0 * 4) + 3 + 1] = dot(s, eye),
        ![(1 * 4) + 3 + 1] = dot(u, eye),
        ![(2 * 4) + 3 + 1] = dot(f, eye)]

LookAtSide(eye, f, s) == LookAtMatrix(eye, f, s, cross(s, f))
LookAtForward(eye, f, up) == LookAtSide(eye, f, normalized(cross(f, up)))

look_at(eye, center, up) == LookAtForward(eye, normalized(VSub(center, eye)), up)

\* The data of the n children of a property tag: children.len() != n, then
\* children[i].data.ok_or(...)? for each child.
PropertyNumbers(prop, n, count_msg, number_msg) ==
    IF Len(prop.children) # n THEN Err(count_msg)
    ELSE IF \E i \in 1..n : ~prop.children[i].data.some THEN Err(number_msg)
    ELSE Ok(Array([i \in 1..n |-> prop.children[i].data.val]))

\* A step of a loop over properties that returns at the first failure.
Updated(nums, value) == IF ~nums.ok THEN nums ELSE Ok(value)

\* model_from_xml_node: the arms of the match.
ModelProperty(disk, model, prop, checks) ==
    CASE prop.name = <<"m", "e", "s", "h">> ->
           IF Len(prop.children) # 1 THEN Err("mesh tag did not specify a path")
           ELSE Updated(from_obj_file(disk, prop.children[1].name, checks),
                        [model EXCEPT !.mesh =
                            from_obj_file(disk, prop.children[1].name, checks).val])
      [] prop.name = <<"r", "o", "t", "a", "t", "i", "o", "n">> ->
           Updated(PropertyNumbers(prop, 3, "rotation tag did not specify three numbers (RPY)",
                                   "rotation tag contained something other than a number"),
                   [model EXCEPT !.transform =
                       Mat4Mul(model.transform,
                               euler_angles(prop.children[1].data.val,
                                            prop.children[2].data.val,
                                            prop.children[3].data.val))])
      [] prop.name = <<"p", "o", "s", "i", "t", "i", "o", "n">> ->
           Updated(PropertyNumbers(prop, 3, "position tag did not specify three numbers (XYZ)",
                                   "position tag contained something other than a number"),
                   [model EXCEPT !.transform =
                       Mat4Mul(model.transform,
                               translation(prop.children[1].data.val,
                                           prop.children[2].data.val,
                                           prop.children[3].data.val))])
      [] OTHER -> Err(<<"model had an unknown property", prop.name>>)

RECURSIVE ModelProperties(_, _, _, _, _)
ModelProperties(disk, result, props, i, checks) ==
    IF ~result.ok \/ i > Len(props) THEN result
    ELSE ModelProperties(disk, ModelProperty(disk, result.val, props[i], checks),
                         props, i + 1, checks)

model_from_xml_node(disk, model_node, checks) ==
    ModelProperties(disk, Ok(Model(MeshDefault, identity)), model_node.children, 1, checks)

\* The arm "color" of light_from_xml_node after the three numbers.
LightColor(light, r, g, b) ==
    IF FGt(r, Int2F(255)) \/ FLt(r, Zero)
    THEN Err("red value in color tag was not between 0 and 255")
    ELSE IF FGt(g, Int2F(255)) \/ FLt(g, Zero)
    THEN Err("green value in color tag was not between 0 and 255")
    ELSE IF FGt(b, Int2F(255)) \/ FLt(b, Zero)
    THEN Err("blue value in color tag was not between 0 and 255")
    ELSE Ok([light EXCEPT !.color = Color(F2U8(FFloor(r)), F2U8(FFloor(g)), F2U8(FFloor(b)))])

LightColorOf(light, nums) ==
    IF ~nums.ok THEN nums ELSE LightColor(light, nums.val[1], nums.val[2], nums.val[3])

\* light_from_xml_node: the arms of the match.
LightProperty(light, prop) ==
    CASE prop.name = <<"s", "t", "r", "e", "n", "g", "t", "h">> ->
           Updated(PropertyNumbers(prop, 1, "strength tag did not specify a single number",
                                   "strength tag contained something other than a number"),
                   [light EXCEPT !.ambient_strength = prop.children[1].data.val])
      [] prop.name = <<"c", "o", "l", "o", "r">> ->
           LightColorOf(light,
                        PropertyNumbers(prop, 3, "color tag did not specify three numbers (RGB)",
                                        "color tag contained something other than a number"))
      [] prop.name = <<"p", "o", "s", "i", "t", "i", "o", "n">> ->
           Updated(PropertyNumbers(prop, 3, "position tag did not specify three numbers (XYZ)",
                                   "position tag contained something other than a number"),
                   [light EXCEPT !.position =
                       Vector3(prop.children[1].data.val, prop.children[2].data.val,
                               prop.children[3].data.val)])
      [] OTHER -> Err(<<"light had an unknown property", prop.name>>)

RECURSIVE LightProperties(_, _, _)
LightProperties(result, props, i) ==
    IF ~result.ok \/ i > Len(props) THEN result
    ELSE LightProperties(LightProperty(result.val, props[i]), props, i + 1)

light_from_xml_node(light_node) ==
    LightProperties(Ok(Light(ORIGIN, ColorDefault, Zero)), light_node.children, 1)

\* The local variables of camera_from_xml_node, all Default::default().
CameraVars ==
    [canvas_width |-> 0, canvas_height |-> 0, fov |-> Zero, near |-> Zero, far |-> Zero,
     look_at |-> ORIGIN, up |-> ORIGIN, position |-> ORIGIN]

\* The arms "position", "lookat" and "up": the three components of a vector.
CameraVector(cv, field, prop, count_msg, number_msg) ==
    Updated(PropertyNumbers(prop, 3, count_msg, number_msg),
            [cv EXCEPT ![field] =
                Vector3(prop.children[1].data.val, prop.children[2].data.val,
                        prop.children[3].data.val)])

\* camera_from_xml_node: the arms of the match.
CameraProperty(cv, prop) ==
    CASE prop.name = <<"p", "r", "o", "j", "e", "c", "t", "i", "o", "n">> ->
           Updated(PropertyNumbers(prop, 5,
                       "projection tag did not specify: width, height, fov, near plane, far plane",
                       "projection tag contained something other than a number"),
                   [cv EXCEPT !.canvas_width = F2I32(prop.children[1].data.val),
                              !.canvas_height = F2I32(prop.children[2].data.val),
                              !.fov = prop.children[3].data.val,
                              !.near = prop.children[4].data.val,
                              !.far = prop.children[5].data.val])
      [] prop.name = <<"p", "o", "s", "i", "t", "i", "o", "n">> ->
           CameraVector(cv, "position", prop,
                        "position tag did not specify three numbers (XYZ)",
                        "position tag contained something other than a number")
      [] prop.name = <<"l", "o", "o", "k", "a", "t">> ->
           CameraVector(cv, "look_at", prop,
                        "lookat tag did not specify three numbers (XYZ)",
                        "lookat tag contained something other than a number")
      [] prop.name = <<"u", "p">> ->
           CameraVector(cv, "up", prop,
                        "up tag did not specify three numbers (XYZ)",
                        "up tag contained something other than a number")
      [] OTHER -> Err(<<"camera had an unknown property", prop.name>>)

RECURSIVE CameraProperties(_, _, _)
CameraProperties(result, props, i) ==
    IF ~result.ok \/ i > Len(props) THEN result
    ELSE CameraProperties(CameraProperty(result.val, props[i]), props, i + 1)

\* Camera::new(canvas_width, canvas_height, fov, near, far) and the view
\* matrix assigned after it.
CameraFrom(cv) ==
    IF ~cv.ok THEN cv
    ELSE Ok([CameraNew(cv.val.canvas_width, cv.val.canvas_height,
                       FTan(FDiv(cv.val.fov, Int2F(2))), cv.val.near, cv.val.far)
                EXCEPT !.view_mat = look_at(cv.val.position, cv.val.look_at, cv.val.up)])

camera_from_xml_node(camera_node) ==
    CameraFrom(CameraProperties(Ok(CameraVars), camera_node.children, 1))

\* Camera::default() and Scene::default()
CameraDefault ==
    [near_plane |-> Zero, far_plane |-> Zero, canvas_width |-> 0, canvas_height |-> 0,
     view_mat |-> identity, projection_mat |-> identity]

SceneDefault == Scene(CameraDefault, <<>>, <<>>)

\* load_from_file: the arms of the match over the children of the scene node.
SceneChild(disk, sc, child, checks) ==
    CASE child.name = <<"m", "o", "d", "e", "l">> ->
           Updated(model_from_xml_node(disk, child, checks),
                   [sc EXCEPT !.models =
                       Append(sc.models, model_from_xml_node(disk, child, checks).val)])
      [] child.name = <<"l", "i", "g", "h", "t">> ->
           Updated(light_from_xml_node(child),
                   [sc EXCEPT !.lights = Append(sc.lights, light_from_xml_node(child).val)])
      [] child.name = <<"c", "a", "m", "e", "r", "a">> ->
           Updated(camera_from_xml_node(child),
                   [sc EXCEPT !.camera = camera_from_xml_node(child).val])
      [] OTHER -> Err(<<"Unknown tag found", child.name>>)

RECURSIVE SceneChildren(_, _, _, _, _)
SceneChildren(disk, result, children, i, checks) ==
    IF ~result.ok \/ i > Len(children) THEN result
    ELSE SceneChildren(disk, SceneChild(disk, result.val, children[i], checks),
                       children, i + 1, checks)

\* load_from_file after parse_scene_file.
SceneFrom(disk, xml_node, checks) ==
    IF ~xml_node.ok THEN xml_node
    ELSE IF xml_node.val.name # <<"f", "i", "l", "e">> THEN Err("XML file was malformed")
    ELSE IF Len(xml_node.val.children) # 1 THEN Err("No scene tag found")
    ELSE SceneChildren(disk, Ok(SceneDefault), xml_node.val.children[1].children, 1, checks)

\* str::replace('\n', "")
RemoveNewlines(text) == SelectSeq(text, LAMBDA c : c # "\n")

\* Scene::load_from_file on the file at path of the disk.
load_from_file(disk, path, checks) ==
    IF path \notin DOMAIN disk THEN Err("No such file or directory")
    ELSE SceneFrom(disk, parse_scene_file(RemoveNewlines(disk[path])), checks)

\* ------------------------------------------------------------------------
\* Parsing scene files
\* ------------------------------------------------------------------------

\* Largest number of pieces of a parsed text.
MaxPieces == 4

\* Opening and closing tags of two names, a bare word and a number.
Pieces == { <<"<", "a", ">">>, <<"<", "/", "a", ">">>, <<"<", "b", ">">>, <<"<", "/", "b", ">">>, <<"w">>, <<"1">> }

RECURSIVE Concat(_)
Concat(ps) == IF ps = <<>> THEN <<>> ELSE Head(ps) \o Concat(Tail(ps))

XmlTexts == { Concat(ps) : ps \in UNION { [1..n -> Pieces] : n \in 1..MaxPieces } }

InitXml ==
    /\ scene = Scene(CameraFlat(4, 4, Fin(1, 10), Int2F(10)), <<WhiteLight>>, Models)
    /\ overflow_checks = FALSE
    /\ pixel_buffer = ClearedPixels(scene.camera)
    /\ depth_buffer = ClearedDepth(scene.camera)
    /\ drawn = <<>>
    /\ trace = <<>>
    /\ normals = <<>>
    /\ overflowed = FALSE
    /\ panicked = FALSE
    /\ image = Image(0, 0, <<>>)
    /\ file \in { Some(text) : text \in XmlTexts }
    /\ loaded = None
    /\ operands = None
    /\ outcome = None

\* parse_scene_file(&file_content)
ParseSceneFile ==
    /\ file.some
    /\ ~loaded.some
    /\ loaded' = Some(parse_scene_file(file.val))
    /\ UNCHANGED <<scene, overflow_checks, pixel_buffer, depth_buffer, drawn, trace,
                   normals, overflowed, panicked, image, file, operands, outcome>>

NextXml == ParseSceneFile

SpecXml == InitXml /\ [][NextXml]_vars

\* The pieces of a text from position i on: a tag from "<" to the next ">",
\* a quoted string, or the characters up to the next "<" or quote.
RECURSIVE PiecesFrom(_, _)
PiecesFrom(text, i) ==
    IF i > Len(text) THEN <<>>
    ELSE IF text[i] = "<" /\ \E j \in i..Len(text) : text[j] = ">"
    THEN LET stop == CHOOSE j \in i..Len(text) :
                         text[j] = ">" /\ \A k \in i..(j - 1) : text[k] # ">"
         IN  <<SubSeq(text, i, stop)>> \o PiecesFrom(text, stop + 1)
    ELSE IF text[i] = "\"" /\ \E j \in (i + 1)..Len(text) : text[j] = "\""
    THEN LET stop == CHOOSE j \in (i + 1)..Len(text) :
                         text[j] = "\"" /\ \A k \in (i + 1)..(j - 1) : text[k] # "\""
         IN  <<SubSeq(text, i, stop)>> \o PiecesFrom(text, stop + 1)
    ELSE LET stop == CHOOSE j \in i..Len(text) :
                         /\ \A k \in (i + 1)..j : text[k] \notin {"<", "\""}
                         /\ j < Len(text) => text[j + 1] \in {"<", "\""}
         IN  <<SubSeq(text, i, stop)>> \o PiecesFrom(text, stop + 1)

IsOpeningTag(piece) == Len(piece) >= 3 /\ piece[1] = "<" /\ IsAlphabetic(piece[2])
IsClosingTag(piece) == Len(piece) >= 4 /\ piece[1] = "<" /\ piece[2] = "/"
TagName(piece) == SelectSeq(piece, IsAlphabetic)

\* How the tags of the pieces from i on nest, with the names of the open tags
\* in stack and the number of closed top-level tags in tops: "unclosed" when an
\* opened tag meets a closing tag of another name, a bare word, or the end of
\* the input; "single" when the input is one closed top-level tag and nothing
\* else; "other" otherwise.
RECURSIVE Nesting(_, _, _, _, _)
Nesting(ps, i, stack, tops, stray) ==
    IF i > Len(ps)
    THEN (IF stack # <<>> THEN "unclosed"
          ELSE IF tops = 1 /\ ~stray THEN "single" ELSE "other")
    ELSE IF IsOpeningTag(ps[i])
    THEN Nesting(ps, i + 1, <<TagName(ps[i])>> \o stack, tops, stray)
    ELSE IF IsClosingTag(ps[i])
    THEN (IF stack = <<>> THEN Nesting(ps, i + 1, stack, tops, TRUE)
          ELSE IF Head(stack) # TagName(ps[i]) THEN "unclosed"
          ELSE Nesting(ps, i + 1, Tail(stack),
                       IF Len(stack) = 1 THEN tops + 1 ELSE tops, stray))
    ELSE IF stack = <<>> THEN Nesting(ps, i + 1, stack, tops, TRUE)
    ELSE IF \E k \in 1..Len(ps[i]) : IsAlphabetic(ps[i][k]) THEN "unclosed"
    ELSE Nesting(ps, i + 1, stack, tops, stray)

NestingOf(text) == Nesting(PiecesFrom(text, 1), 1, <<>>, 0, FALSE)

\* C17: parse_scene_file returns an error with a message whenever an opened
\* tag is not closed by a closing tag of its name before the input ends
\* (missing end tag, end tag of another name, unclosed nested tag, bare word
\* inside a tag), and returns the node `file` with one child when the input
\* is one properly nested and closed top-level tag.
C17_UnclosedTagsRejected ==
    loaded.some =>
        /\ NestingOf(file.val) = "unclosed"
           => ~loaded.val.ok /\ loaded.val.msg # ""
        /\ NestingOf(file.val) = "single"
           => /\ loaded.val.ok
              /\ loaded.val.val.name = <<"f", "i", "l", "e">>
              /\ Len(loaded.val.val.children) = 1

\* ------------------------------------------------------------------------
\* Loading scene files
\* ------------------------------------------------------------------------

\* Largest number of models, lights and cameras of a loaded scene file.
MaxItems == 2

\* The mesh file the models of the scene files name: one triangle.
SceneDisk ==
    Disk @@ (<<"c">> :> TextOf(<<<<"v", " ", "0", " ", "0", " ", "0">>, <<"v", " ", "1", " ", "0", " ", "0">>, <<"v", " ", "0", " ", "1", " ", "0">>, <<"f", " ", "1", " ", "2", " ", "3">>>>))

\* The path of the scene file.
ScenePath == <<"s">>

CameraPlain == <<"<", "c", "a", "m", "e", "r", "a", ">", "<", "p", "r", "o", "j", "e", "c", "t", "i", "o", "n", ">", "4", " ", "4", " ", "1", " ", "1", " ", "1", "0", "<", "/", "p", "r", "o", "j", "e", "c", "t", "i", "o", "n", ">", "<", "/", "c", "a", "m", "e", "r", "a", ">">>
CameraLooking ==
    <<"<", "c", "a", "m", "e", "r", "a", ">", "<", "p", "r", "o", "j", "e", "c", "t", "i", "o", "n", ">", "4", " ", "4", " ", "1", " ", "1", " ", "1", "0", "<", "/", "p", "r", "o", "j", "e", "c", "t", "i", "o", "n", ">", "<", "p", "o", "s", "i", "t", "i", "o", "n", ">", "0", " ", "0", " ", "1", "<", "/", "p", "o", "s", "i", "t", "i", "o", "n", ">">>
    \o <<"<", "l", "o", "o", "k", "a", "t", ">", "0", " ", "0", " ", "0", "<", "/", "l", "o", "o", "k", "a", "t", ">", "<", "u", "p", ">", "0", " ", "1", " ", "0", "<", "/", "u", "p", ">", "<", "/", "c", "a", "m", "e", "r", "a", ">">>
LightWhite ==
    <<"<", "l", "i", "g", "h", "t", ">", "<", "p", "o", "s", "i", "t", "i", "o", "n", ">", "0", " ", "0", " ", "1", "0", "<", "/", "p", "o", "s", "i", "t", "i", "o", "n", ">", "<", "c", "o", "l", "o", "r", ">", "2", "5", "5", " ", "2", "5", "5", " ", "2", "5", "5", "<", "/", "c", "o", "l", "o", "r", ">">>
    \o <<"<", "s", "t", "r", "e", "n", "g", "t", "h", ">", "0", "<", "/", "s", "t", "r", "e", "n", "g", "t", "h", ">", "<", "/", "l", "i", "g", "h", "t", ">">>
ModelPlaced ==
    <<"<", "m", "o", "d", "e", "l", ">", "<", "m", "e", "s", "h", ">", "\"", "c", "\"", "<", "/", "m", "e", "s", "h", ">", "<", "p", "o", "s", "i", "t", "i", "o", "n", ">", "0", " ", "0", " ", "1", "<", "/", "p", "o", "s", "i", "t", "i", "o", "n", ">", "<", "r", "o", "t", "a", "t", "i", "o", "n", ">", "0", " ", "0", " ", "0", "<", "/", "r", "o", "t", "a", "t", "i", "o", "n", ">", "<", "/", "m", "o", "d", "e", "l", ">">>

WellTypedItems == { CameraPlain, CameraLooking, LightWhite, ModelPlaced }

\* A vector tag without exactly three numbers, a projection without five, a
\* colour channel outside [0, 255], an unknown tag.
IllTypedItems ==
    { <<"<", "c", "a", "m", "e", "r", "a", ">", "<", "p", "r", "o", "j", "e", "c", "t", "i", "o", "n", ">", "4", " ", "4", " ", "1", " ", "1", "<", "/", "p", "r", "o", "j", "e", "c", "t", "i", "o", "n", ">", "<", "/", "c", "a", "m", "e", "r", "a", ">">>,
      <<"<", "c", "a", "m", "e", "r", "a", ">", "<", "p", "r", "o", "j", "e", "c", "t", "i", "o", "n", ">", "4", " ", "4", " ", "1", " ", "1", " ", "1", "0", "<", "/", "p", "r", "o", "j", "e", "c", "t", "i", "o", "n", ">", "<", "l", "o", "o", "k", "a", "t", ">", "0", " ", "0", "<", "/", "l", "o", "o", "k", "a", "t", ">", "<", "/", "c", "a", "m", "e", "r", "a", ">">>,
      <<"<", "c", "a", "m", "e", "r", "a", ">", "<", "p", "r", "o", "j", "e", "c", "t", "i", "o", "n", ">", "4", " ", "4", " ", "1", " ", "1", " ", "1", "0", "<", "/", "p", "r", "o", "j", "e", "c", "t", "i", "o", "n", ">", "<", "u", "p", ">", "0", " ", "1", " ", "0", " ", "0", "<", "/", "u", "p", ">", "<", "/", "c", "a", "m", "e", "r", "a", ">">>,
      <<"<", "l", "i", "g", "h", "t", ">", "<", "c", "o", "l", "o", "r", ">", "2", "5", "6", " ", "0", " ", "0", "<", "/", "c", "o", "l", "o", "r", ">", "<", "/", "l", "i", "g", "h", "t", ">">>,
      <<"<", "l", "i", "g", "h", "t", ">", "<", "c", "o", "l", "o", "r", ">", "0", " ", "-", "1", " ", "0", "<", "/", "c", "o", "l", "o", "r", ">", "<", "/", "l", "i", "g", "h", "t", ">">>,
      <<"<", "l", "i", "g", "h", "t", ">", "<", "c", "o", "l", "o", "r", ">", "1", " ", "2", "<", "/", "c", "o", "l", "o", "r", ">", "<", "/", "l", "i", "g", "h", "t", ">">>,
      <<"<", "l", "i", "g", "h", "t", ">", "<", "p", "o", "s", "i", "t", "i", "o", "n", ">", "1", " ", "2", "<", "/", "p", "o", "s", "i", "t", "i", "o", "n", ">", "<", "/", "l", "i", "g", "h", "t", ">">>,
      <<"<", "m", "o", "d", "e", "l", ">", "<", "m", "e", "s", "h", ">", "\"", "c", "\"", "<", "/", "m", "e", "s", "h", ">", "<", "r", "o", "t", "a", "t", "i", "o", "n", ">", "0", " ", "0", "<", "/", "r", "o", "t", "a", "t", "i", "o", "n", ">", "<", "/", "m", "o", "d", "e", "l", ">">>,
      <<"<", "m", "o", "d", "e", "l", ">", "<", "m", "e", "s", "h", ">", "\"", "c", "\"", "<", "/", "m", "e", "s", "h", ">", "<", "p", "o", "s", "i", "t", "i", "o", "n", ">", "0", " ", "\"", "a", "\"", " ", "1", "<", "/", "p", "o", "s", "i", "t", "i", "o", "n", ">", "<", "/", "m", "o", "d", "e", "l", ">">>,
      <<"<", "s", "k", "y", ">", "<", "/", "s", "k", "y", ">">> }

\* A model with no mesh and a camera with no projection.
IncompleteItems ==
    { <<"<", "m", "o", "d", "e", "l", ">", "<", "p", "o", "s", "i", "t", "i", "o", "n", ">", "0", " ", "0", " ", "1", "<", "/", "p", "o", "s", "i", "t", "i", "o", "n", ">", "<", "/", "m", "o", "d", "e", "l", ">">>,
      <<"<", "c", "a", "m", "e", "r", "a", ">", "<", "p", "o", "s", "i", "t", "i", "o", "n", ">", "0", " ", "0", " ", "1", "<", "/", "p", "o", "s", "i", "t", "i", "o", "n", ">", "<", "/", "c", "a", "m", "e", "r", "a", ">">> }

SceneBodies ==
    { Concat(items) :
        items \in UNION { [1..n -> WellTypedItems \cup IllTypedItems \cup IncompleteItems] :
                          n \in 0..MaxItems } }

\* One top-level tag `scene`; a top-level tag of another name; a second
\* top-level tag; a word after the top-level tag.
SceneFiles ==
    UNION { { <<"<", "s", "c", "e", "n", "e", ">">> \o <<"\n">> \o body \o <<"<", "/", "s", "c", "e", "n", "e", ">">> \o <<"\n">>,
              <<"<", "w", "o", "r", "l", "d", ">">> \o body \o <<"<", "/", "w", "o", "r", "l", "d", ">">>,
              <<"<", "s", "c", "e", "n", "e", ">">> \o body \o <<"<", "/", "s", "c", "e", "n", "e", ">", "<", "s", "c", "e", "n", "e", ">", "<", "/", "s", "c", "e", "n", "e", ">">>,
              <<"<", "s", "c", "e", "n", "e", ">">> \o body \o <<"<", "/", "s", "c", "e", "n", "e", ">", "w">> } : body \in SceneBodies }

InitScene ==
    /\ scene = Scene(CameraFlat(4, 4, Fin(1, 10), Int2F(10)), <<WhiteLight>>, Models)
    /\ overflow_checks = FALSE
    /\ pixel_buffer = ClearedPixels(scene.camera)
    /\ depth_buffer = ClearedDepth(scene.camera)
    /\ drawn = <<>>
    /\ trace = <<>>
    /\ normals = <<>>
    /\ overflowed = FALSE
    /\ panicked = FALSE
    /\ image = Image(0, 0, <<>>)
    /\ file \in { Some(text) : text \in SceneFiles }
    /\ loaded = None
    /\ operands = None
    /\ outcome = None

\* Scene::load_from_file(path)
LoadScene ==
    /\ file.some
    /\ ~loaded.some
    /\ loaded' = Some(load_from_file(SceneDisk @@ (ScenePath :> file.val), ScenePath,
                                     overflow_checks))
    /\ UNCHANGED <<scene, overflow_checks, pixel_buffer, depth_buffer, drawn, trace,
                   normals, overflowed, panicked, image, file, operands, outcome>>

NextScene == LoadScene

SpecScene == InitScene /\ [][NextScene]_vars

\* The text holds the part at some position.
Contains(text, part) ==
    \E i \in 0..(Len(text) - Len(part)) : SubSeq(text, i + 1, i + Len(part)) = part

\* C14: load_from_file returns an error for a scene file with a `position`,
\* `rotation`, `color`, `lookat` or `up` tag without exactly three numbers, a
\* `projection` without five, a colour channel outside [0, 255], an unknown
\* tag, a `model` with no `mesh`, or a `camera` with no `projection`.
C14_IllTypedFieldsRejected ==
    loaded.some =>
        ((\E item \in IllTypedItems \cup IncompleteItems : Contains(file.val, item))
         => ~loaded.val.ok)

\* C15: load_from_file accepts a file only if its top level is exactly one
\* tag, named `scene`.
C15_OnlyOneSceneTagAccepted ==
    (loaded.some /\ loaded.val.ok) =>
        /\ NestingOf(RemoveNewlines(file.val)) = "single"
        /\ TagName(PiecesFrom(RemoveNewlines(file.val), 1)[1]) = <<"s", "c", "e", "n", "e">>

\* C16: a camera loaded from a `camera` node without `lookat` tag has the
\* identity view matrix; with the tags `position`, `lookat` and `up` it has
\* the view matrix look_at(position, lookat, up).
C16_ViewIdentityWithoutLookat ==
    (loaded.some /\ loaded.val.ok /\ Contains(file.val, <<"<", "c", "a", "m", "e", "r", "a", ">">>)) =>
        /\ ~Contains(file.val, <<"<", "l", "o", "o", "k", "a", "t", ">">>) => loaded.val.val.camera.view_mat = identity
        /\ (Contains(file.val, CameraLooking) /\ ~Contains(file.val, CameraPlain)
            /\ \A item \in IncompleteItems : ~Contains(file.val, item))
           => loaded.val.val.camera.view_mat = look_at(V3(0, 0, 1), V3(0, 0, 0), V3(0, 1, 0))

\* ------------------------------------------------------------------------
\* Inverting and multiplying matrices
\* ------------------------------------------------------------------------

\* Largest absolute value of the entries that are varied in a matrix.
MaxEntry == 2

Entries == (-MaxEntry)..MaxEntry

\* The Mat4 with the integer entries es.
IntMat(es) == Array([i \in 1..16 |-> Int2F(es[i])])

\* A dense matrix with determinant 16.
DenseMat == IntMat(<<1, 2, 0, 1,  0, 1, 3, 0,  2, 0, 1, 1,  1, 1, 0, 2>>)

\* The identity, two dense matrices that have an inverse, a dense matrix
\* that has none, and the zero matrix.
BaseMats ==
    { identity,
      DenseMat,
      IntMat(<<1, 1, 0, 0,  0, 1, 1, 0,  0, 0, 1, 1,  1, 0, 0, 2>>),
      IntMat(<<1, 2, 0, 1,  0, 1, 3, 0,  1, 3, 3, 1,  1, 1, 0, 2>>),
      IntMat(<<0, 0, 0, 0,  0, 0, 0, 0,  0, 0, 0, 0,  0, 0, 0, 0>>) }

\* The position that is varied together with position i.
Partner(i) == ((i * 5) % 16) + 1

\* The base matrices with two entries replaced.
FiniteMats ==
    { [base EXCEPT ![i] = Int2F(x), ![Partner(i)] = Int2F(y)] :
          base \in BaseMats, i \in 1..16, x \in Entries, y \in Entries }

\* The projection matrices of Camera::new(0, 0, 0.0, 0.0, 0.0) and of a
\* camera with fov = 0: entries that are NaN or infinite.
NonFiniteMats ==
    { CameraNew(0, 0, Zero, Zero, Zero).projection_mat,
      CameraNew(4, 4, Zero, One, Int2F(10)).projection_mat }

AllFinite(m) == \A i \in 1..16 : IsFinite(m[i])

Offsets == { V3(0, 0, 0), V3(1, 1, 1), V3(-2, 0, 3), Vector3(Half, Int2F(2), Int2F(-1)) }

Points == { ORIGIN, V3(1, 2, 3), V3(-1, 0, 2), Vector3(Half, Half, Int2F(4)) }

\* A quarter turn about the z axis and a shear, as integer matrices.
QuarterTurn == IntMat(<<0, -1, 0, 0,  1, 0, 0, 0,  0, 0, 1, 0,  0, 0, 0, 1>>)
Shear == IntMat(<<1, 2, 0, 0,  0, 1, 0, 0,  0, 3, 1, 0,  0, 0, 0, 1>>)

\* Affine matrices: the last row is 0 0 0 1.
AffineMats ==
    { translation(v.x, v.y, v.z) : v \in Offsets }
    \cup { scale(Int2F(2), Int2F(3), Half), scale(Int2F(-1), One, One), scale(Zero, One, Int2F(2)),
           QuarterTurn, Shear, [Shear EXCEPT ![4] = Int2F(5), ![8] = Int2F(-1)] }

\* What a computation is given: a matrix to invert or to multiply with the
\* identity, or two affine matrices and a point.
MatOperands ==
    { [kind |-> "matrix", m |-> mat] : mat \in FiniteMats \cup NonFiniteMats }
    \cup { [kind |-> "affine", a |-> ma, b |-> mb, p |-> pt] :
               ma \in AffineMats, mb \in AffineMats, pt \in Points }

InitMat ==
    /\ scene = Scene(CameraFlat(4, 4, Fin(1, 10), Int2F(10)), <<WhiteLight>>, Models)
    /\ overflow_checks = FALSE
    /\ pixel_buffer = ClearedPixels(scene.camera)
    /\ depth_buffer = ClearedDepth(scene.camera)
    /\ drawn = <<>>
    /\ trace = <<>>
    /\ normals = <<>>
    /\ overflowed = FALSE
    /\ panicked = FALSE
    /\ image = Image(0, 0, <<>>)
    /\ file = None
    /\ loaded = None
    /\ operands \in { Some(given) : given \in MatOperands }
    /\ outcome = None

\* m.inverse()
Invert ==
    /\ operands.some
    /\ operands.val.kind = "matrix"
    /\ ~outcome.some
    /\ outcome' = Some([op |-> "inverse", inv |-> inverse(operands.val.m)])
    /\ UNCHANGED <<scene, overflow_checks, pixel_buffer, depth_buffer, drawn, trace,
                   normals, overflowed, panicked, image, file, loaded, operands>>

\* Mat4::identity() * m and m * Mat4::identity()
MultiplyByIdentity ==
    /\ operands.some
    /\ operands.val.kind = "matrix"
    /\ ~outcome.some
    /\ outcome' = Some([op |-> "identity",
                        left |-> Mat4Mul(identity, operands.val.m),
                        right |-> Mat4Mul(operands.val.m, identity)])
    /\ UNCHANGED <<scene, overflow_checks, pixel_buffer, depth_buffer, drawn, trace,
                   normals, overflowed, panicked, image, file, loaded, operands>>

\* c = a * b, c * p and a * (b * p), a * p
Multiply ==
    /\ operands.some
    /\ operands.val.kind = "affine"
    /\ ~outcome.some
    /\ outcome' = Some([op |-> "product",
                        c |-> Mat4Mul(operands.val.a, operands.val.b),
                        cp |-> Mat4MulVec(Mat4Mul(operands.val.a, operands.val.b), operands.val.p),
                        abp |-> Mat4MulVec(operands.val.a, Mat4MulVec(operands.val.b, operands.val.p)),
                        ap |-> Mat4MulVec(operands.val.a, operands.val.p)])
    /\ UNCHANGED <<scene, overflow_checks, pixel_buffer, depth_buffer, drawn, trace,
                   normals, overflowed, panicked, image, file, loaded, operands>>

NextMat == Invert \/ MultiplyByIdentity \/ Multiply

SpecMat == InitMat /\ [][NextMat]_vars

\* The permutations of the columns 0..3 with their signs.
SignedPermutations ==
    { <<1, 0, 1, 2, 3>>, <<-1, 0, 1, 3, 2>>, <<-1, 0, 2, 1, 3>>, <<1, 0, 2, 3, 1>>,
      <<1, 0, 3, 1, 2>>, <<-1, 0, 3, 2, 1>>, <<-1, 1, 0, 2, 3>>, <<1, 1, 0, 3, 2>>,
      <<1, 1, 2, 0, 3>>, <<-1, 1, 2, 3, 0>>, <<-1, 1, 3, 0, 2>>, <<1, 1, 3, 2, 0>>,
      <<1, 2, 0, 1, 3>>, <<-1, 2, 0, 3, 1>>, <<-1, 2, 1, 0, 3>>, <<1, 2, 1, 3, 0>>,
      <<1, 2, 3, 0, 1>>, <<-1, 2, 3, 1, 0>>, <<-1, 3, 0, 1, 2>>, <<1, 3, 0, 2, 1>>,
      <<1, 3, 1, 0, 2>>, <<-1, 3, 1, 2, 0>>, <<-1, 3, 2, 0, 1>>, <<1, 3, 2, 1, 0>> }

\* The determinant of m by the sum over the permutations.
RECURSIVE DeterminantOver(_, _)
DeterminantOver(m, qs) ==
    IF qs = {} THEN Zero
    ELSE LET q == CHOOSE x \in qs : TRUE
             product == FMul(FMul(at(m, q[2], 0), at(m, q[3], 1)),
                             FMul(at(m, q[4], 2), at(m, q[5], 3)))
         IN  FAdd(IF q[1] < 0 THEN FNeg(product) ELSE product,
                  DeterminantOver(m, qs \ {q}))

Determinant(m) == DeterminantOver(m, SignedPermutations)

Mat4Eq(ma, mb) == \A i \in 1..16 : FEq(ma[i], mb[i])
Vector3Eq(va, vb) == FEq(va.x, vb.x) /\ FEq(va.y, vb.y) /\ FEq(va.z, vb.z)

\* (a * b) * p == a * (b * p); the product of two translations has the sum of
\* their offsets as its translation part; a translation moves p by its offset.
ProductComposes ==
    (outcome.some /\ outcome.val.op = "product") =>
        /\ Vector3Eq(outcome.val.cp, outcome.val.abp)
        /\ \A u \in Offsets : \A v \in Offsets :
               (operands.val.a = translation(u.x, u.y, u.z)
                /\ operands.val.b = translation(v.x, v.y, v.z))
               => Vector3Eq(translation_part(outcome.val.c), VAdd(u, v))
        /\ \A t \in Offsets :
               operands.val.a = translation(t.x, t.y, t.z)
               => Vector3Eq(outcome.val.ap, VAdd(operands.val.p, t))

\* identity * m == m == m * identity
IdentityIsNeutral ==
    /\ Mat4Eq(outcome.val.left, operands.val.m)
    /\ Mat4Eq(operands.val.m, outcome.val.right)

MaxTurns == 3

\* Angles in degrees: the quarter turns.
Degrees == { Int2F(90 * k) : k \in (-MaxTurns)..MaxTurns }

\* The unit points of the axes and two other points.
AxisPoints == { V3(1, 0, 0), V3(0, 1, 0), V3(0, 0, 1), V3(1, 2, 3), V3(-1, 0, 2) }

EulerOperands ==
    { [kind |-> "euler", roll |-> r, pitch |-> q, yaw |-> y, p |-> pt] :
          r \in { Int2F(0), Int2F(90) }, q \in { Int2F(0), Int2F(90) }, y \in Degrees,
          pt \in AxisPoints }

InitEuler ==
    /\ scene = Scene(CameraFlat(4, 4, Fin(1, 10), Int2F(10)), <<WhiteLight>>, Models)
    /\ overflow_checks = FALSE
    /\ pixel_buffer = ClearedPixels(scene.camera)
    /\ depth_buffer = ClearedDepth(scene.camera)
    /\ drawn = <<>>
    /\ trace = <<>>
    /\ normals = <<>>
    /\ overflowed = FALSE
    /\ panicked = FALSE
    /\ image = Image(0, 0, <<>>)
    /\ file = None
    /\ loaded = None
    /\ operands \in { Some(given) : given \in EulerOperands }
    /\ outcome = None

\* The angles of the operands in radians, as a rotation.
RotationOf(given) ==
    euler_angles(to_radians(given.roll), to_radians(given.pitch), to_radians(given.yaw))

\* euler_angles(roll, pitch, yaw) * p, and
\* translation(1, 0, 0) * euler_angles(roll, pitch, yaw) * scale(2, 2, 2) * p
Rotate ==
    /\ operands.some
    /\ operands.val.kind = "euler"
    /\ ~outcome.some
    /\ outcome' = Some([op |-> "euler",
                        rotated |-> Mat4MulVec(RotationOf(operands.val), operands.val.p),
                        placed |-> Mat4MulVec(Mat4Mul(Mat4Mul(translation(One, Zero, Zero),
                                                                RotationOf(operands.val)),
                                                       scale(Int2F(2), Int2F(2), Int2F(2))),
                                              operands.val.p)])
    /\ UNCHANGED <<scene, overflow_checks, pixel_buffer, depth_buffer, drawn, trace,
                   normals, overflowed, panicked, image, file, loaded, operands>>

NextEuler == Rotate

SpecEuler == InitEuler /\ [][NextEuler]_vars

\* Every component of va is within 1e-5 of the component of vb.
Near(va, vb) ==
    /\ FLt(FAbs(FSub(va.x, vb.x)), Fin(1, 100000))
    /\ FLt(FAbs(FSub(va.y, vb.y)), Fin(1, 100000))
    /\ FLt(FAbs(FSub(va.z, vb.z)), Fin(1, 100000))

\* C21: euler_angles(0, 0, yaw) rotates about the Z axis (it leaves the z of
\* a point as it is); with yaw = 90 degrees it maps (1,0,0) to (0,1,0), and
\* translation(1,0,0) * euler_angles(0,0,90 degrees) * scale(2,2,2) maps
\* (1,0,0) to (1,2,0), each component within 1e-5.
C21_YawRotatesAboutZ ==
    (outcome.some /\ outcome.val.op = "euler"
     /\ operands.val.roll = Zero /\ operands.val.pitch = Zero) =>
        /\ FLt(FAbs(FSub(outcome.val.rotated.z, operands.val.p.z)), Fin(1, 100000))
        /\ (operands.val.yaw = Int2F(90) /\ operands.val.p = V3(1, 0, 0)) =>
               /\ Near(outcome.val.rotated, V3(0, 1, 0))
               /\ Near(outcome.val.placed, V3(1, 2, 0))

\* ------------------------------------------------------------------------
\* Looking at a point
\* ------------------------------------------------------------------------

\* Largest distance from the origin of the points on the axes.
MaxReach == 2

\* Points on the axes, and points at the distances 3, 4 and 5 of each other.
LookPoints ==
    UNION { { V3(x, 0, 0), V3(0, x, 0), V3(0, 0, x) } : x \in (-MaxReach)..MaxReach }
    \cup { V3(3, 0, 0), V3(0, 4, 0), V3(0, 0, 4), V3(3, 4, 0) }

UpVectors == { V3(0, 1, 0), V3(0, 0, 1), V3(1, 0, 0) }

LookOperands ==
    { [kind |-> "look", eye |-> e, center |-> c, up |-> u] :
          e \in LookPoints, c \in LookPoints, u \in UpVectors }

InitLook ==
    /\ scene = Scene(CameraFlat(4, 4, Fin(1, 10), Int2F(10)), <<WhiteLight>>, Models)
    /\ overflow_checks = FALSE
    /\ pixel_buffer = ClearedPixels(scene.camera)
    /\ depth_buffer = ClearedDepth(scene.camera)
    /\ drawn = <<>>
    /\ trace = <<>>
    /\ normals = <<>>
    /\ overflowed = FALSE
    /\ panicked = FALSE
    /\ image = Image(0, 0, <<>>)
    /\ file = None
    /\ loaded = None
    /\ operands \in { Some(given) : given \in LookOperands }
    /\ outcome = None

\* view = Mat4::look_at(eye, center, up), view * eye and view * center
LookAt ==
    /\ operands.some
    /\ operands.val.kind = "look"
    /\ ~outcome.some
    /\ outcome' = Some([op |-> "look",
                        view |-> look_at(operands.val.eye, operands.val.center, operands.val.up),
                        eye_at |-> Mat4MulVec(look_at(operands.val.eye, operands.val.center,
                                                      operands.val.up), operands.val.eye),
                        center_at |-> Mat4MulVec(look_at(operands.val.eye, operands.val.center,
                                                         operands.val.up), operands.val.center)])
    /\ UNCHANGED <<scene, overflow_checks, pixel_buffer, depth_buffer, drawn, trace,
                   normals, overflowed, panicked, image, file, loaded, operands>>

NextLook == LookAt

SpecLook == InitLook /\ [][NextLook]_vars

\* The direction from eye to center and the direction to the side both have
\* a length that the square root gives exactly, and neither is zero.
Sighted(given) ==
    /\ FMul(magnitude(VSub(given.center, given.eye)), magnitude(VSub(given.center, given.eye)))
           = dot(VSub(given.center, given.eye), VSub(given.center, given.eye))
    /\ dot(normalized(VSub(given.center, given.eye)), normalized(VSub(given.center, given.eye))) = One
    /\ dot(normalized(cross(normalized(VSub(given.center, given.eye)), given.up)),
           normalized(cross(normalized(VSub(given.center, given.eye)), given.up))) = One

\* C22: look_at(eye, center, up) maps eye to the origin, maps center to the
\* point of the negative Z axis at the distance |center - eye|, and its
\* upper-left 3x3 part has the determinant +1.
C22_LookAtRightHanded ==
    (outcome.some /\ outcome.val.op = "look" /\ Sighted(operands.val)) =>
        /\ outcome.val.eye_at = ORIGIN
        /\ outcome.val.center_at
               = Vector3(Zero, Zero, FNeg(magnitude(VSub(operands.val.center, operands.val.eye))))
        /\ Determinant(outcome.val.view) = One

\* ------------------------------------------------------------------------
\* From normalized device coordinates to pixels
\* ------------------------------------------------------------------------

\* Largest absolute value of a coordinate, in quarters.
MaxQuarters == 6

\* Coordinates from -MaxQuarters/4 to MaxQuarters/4 in steps of 1/4.
NdcCoordinates == { Fin(k, 4) : k \in (-MaxQuarters)..MaxQuarters }

CanvasSizes == { <<1, 1>>, <<4, 3>>, <<3, 4>> }

NdcOperands ==
    { [kind |-> "ndc", v |-> Vector3(x, y, Half), width |-> size[1], height |-> size[2]] :
          x \in NdcCoordinates, y \in NdcCoordinates, size \in CanvasSizes }

InitPixel ==
    /\ scene = Scene(CameraFlat(4, 4, Fin(1, 10), Int2F(10)), <<WhiteLight>>, Models)
    /\ overflow_checks = FALSE
    /\ pixel_buffer = ClearedPixels(scene.camera)
    /\ depth_buffer = ClearedDepth(scene.camera)
    /\ drawn = <<>>
    /\ trace = <<>>
    /\ normals = <<>>
    /\ overflowed = FALSE
    /\ panicked = FALSE
    /\ image = Image(0, 0, <<>>)
    /\ file = None
    /\ loaded = None
    /\ operands \in { Some(given) : given \in NdcOperands }
    /\ outcome = None

\* v.ndc_to_pixel(width, height)
NdcToPixel ==
    /\ operands.some
    /\ operands.val.kind = "ndc"
    /\ ~outcome.some
    /\ outcome' = Some([op |-> "ndc",
                        pixel |-> ndc_to_pixel(operands.val.v, operands.val.width,
                                               operands.val.height)])
    /\ UNCHANGED <<scene, overflow_checks, pixel_buffer, depth_buffer, drawn, trace,
                   normals, overflowed, panicked, image, file, loaded, operands>>

NextPixel == NdcToPixel

SpecPixel == InitPixel /\ [][NextPixel]_vars

\* floor(a) as an integer, for a finite a.
FloorOf(a) == a.n \div a.d

\* C23: for every NDC point v, also left of or above the canvas,
\* ndc_to_pixel(v, W, H) has x = floor((v.x + 1) * 0.5 * W) and
\* y = floor((1 - v.y) * 0.5 * H); (-1, 1, z) maps to (0, 0) and (1, -1, z)
\* to (W, H).
C23_NdcToPixelFloors ==
    (outcome.some /\ outcome.val.op = "ndc") =>
        /\ outcome.val.pixel.x
               = FloorOf(FMul(FMul(FAdd(operands.val.v.x, One), Half), Int2F(operands.val.width)))
        /\ outcome.val.pixel.y
               = FloorOf(FMul(FMul(FSub(One, operands.val.v.y), Half), Int2F(operands.val.height)))
        /\ (operands.val.v.x = Int2F(-1) /\ operands.val.v.y = One)
               => outcome.val.pixel = ScreenCoordinate(0, 0)
        /\ (operands.val.v.x = One /\ operands.val.v.y = Int2F(-1))
               => outcome.val.pixel = ScreenCoordinate(operands.val.width, operands.val.height)

\* ------------------------------------------------------------------------
\* Sampling images one texel wide or high
\* ------------------------------------------------------------------------

\* Largest number of texels of the longer side of an image.
MaxTexels == 3

TexelColors == { Color(255, 0, 0), Color(0, 255, 0), Color(0, 0, 0) }

\* The images that are one texel high, and those that are one texel wide.
ThinImages ==
    UNION { { Image(n, 1, texels) : texels \in [1..n -> TexelColors] } : n \in 1..MaxTexels }
    \cup UNION { { Image(1, n, texels) : texels \in [1..n -> TexelColors] } : n \in 1..MaxTexels }

SampleCoordinates == { Zero, Half, One }

SampleOperands ==
    { [kind |-> "sample", img |-> texture, u |-> cu, v |-> cv] :
          texture \in ThinImages, cu \in SampleCoordinates, cv \in SampleCoordinates }

InitSample ==
    /\ scene = Scene(CameraFlat(4, 4, Fin(1, 10), Int2F(10)), <<WhiteLight>>, Models)
    /\ overflow_checks = FALSE
    /\ pixel_buffer = ClearedPixels(scene.camera)
    /\ depth_buffer = ClearedDepth(scene.camera)
    /\ drawn = <<>>
    /\ trace = <<>>
    /\ normals = <<>>
    /\ overflowed = FALSE
    /\ panicked = FALSE
    /\ image = Image(0, 0, <<>>)
    /\ file = None
    /\ loaded = None
    /\ operands \in { Some(given) : given \in SampleOperands }
    /\ outcome = None

\* img.sample_bilinear(u, v)
SampleBilinear ==
    /\ operands.some
    /\ operands.val.kind = "sample"
    /\ ~outcome.some
    /\ outcome' = Some([op |-> "sample",
                        color |-> sample_bilinear(operands.val.img, operands.val.u,
                                                  operands.val.v)])
    /\ UNCHANGED <<scene, overflow_checks, pixel_buffer, depth_buffer, drawn, trace,
                   normals, overflowed, panicked, image, file, loaded, operands>>

NextSample == SampleBilinear

SpecSample == InitSample /\ [][NextSample]_vars

\* The position of (u, v) in texels, with v flipped: column and row.
TexelColumn(given) == FMul(given.u, Int2F(given.img.width - 1))
TexelRow(given) == FMul(FSub(One, given.v), Int2F(given.img.height - 1))

\* The texel of the column x and the row y.
TexelAt(img, x, y) == img.data[(y * img.width) + x + 1]

\* The channels of the colour c are within 1 of twice the average of the
\* colours ca and cb.
NearAverage(c, ca, cb) ==
    /\ Abs((2 * c.r) - (ca.r + cb.r)) <= 2
    /\ Abs((2 * c.g) - (ca.g + cb.g)) <= 2
    /\ Abs((2 * c.b) - (ca.b + cb.b)) <= 2

\* C24: for every image with width >= 1 and height >= 1, sample_bilinear at
\* coordinates that fall on a texel returns the colour of that texel, with
\* (0, 0) the bottom-left texel, and at the midpoint between two adjacent
\* texels of a row or of a column returns their average within 1 per channel.
C24_SampleOnTexelExact ==
    (outcome.some /\ outcome.val.op = "sample") =>
        /\ (TexelColumn(operands.val).d = 1 /\ TexelRow(operands.val).d = 1)
               => outcome.val.color
                      = TexelAt(operands.val.img, TexelColumn(operands.val).n,
                                TexelRow(operands.val).n)
        /\ (TexelColumn(operands.val).d = 2 /\ TexelRow(operands.val).d = 1)
               => NearAverage(outcome.val.color,
                              TexelAt(operands.val.img, TexelColumn(operands.val).n \div 2,
                                      TexelRow(operands.val).n),
                              TexelAt(operands.val.img, (TexelColumn(operands.val).n \div 2) + 1,
                                      TexelRow(operands.val).n))
        /\ (TexelColumn(operands.val).d = 1 /\ TexelRow(operands.val).d = 2)
               => NearAverage(outcome.val.color,
                              TexelAt(operands.val.img, TexelColumn(operands.val).n,
                                      TexelRow(operands.val).n \div 2),
                              TexelAt(operands.val.img, TexelColumn(operands.val).n,
                                      (TexelRow(operands.val).n \div 2) + 1))

\* ------------------------------------------------------------------------
\* Generating the normals of an OBJ file without normals
\* ------------------------------------------------------------------------

\* Largest number of faces of an OBJ file without normals.
MaxFaces == 2

\* The four vertices of a quad in the plane z = 0, and of a quad in the
\* plane 3y + 4z = 0.
QuadVertexLines ==
    { <<<<"v", " ", "0", " ", "0", " ", "0">>, <<"v", " ", "1", " ", "0", " ", "0">>,
        <<"v", " ", "1", " ", "1", " ", "0">>, <<"v", " ", "0", " ", "1", " ", "0">>>>,
      <<<<"v", " ", "0", " ", "0", " ", "0">>, <<"v", " ", "1", " ", "0", " ", "0">>,
        <<"v", " ", "1", " ", "4", " ", "-", "3">>, <<"v", " ", "0", " ", "4", " ", "-", "3">>>> }

IndexText(i) == <<"1", "2", "3", "4">>[i]

\* The line of a face without texture coordinates and without normals.
FaceLine(i, j, k) == <<"f", " ", IndexText(i), " ", IndexText(j), " ", IndexText(k)>>

\* The triangles of the quad, in both windings.
QuadFaces ==
    { t \in (1..4) \X (1..4) \X (1..4) :
          \/ (t[1] < t[2] /\ t[2] < t[3])
          \/ (t[1] > t[2] /\ t[2] > t[3]) }

QuadFaceLines == { FaceLine(t[1], t[2], t[3]) : t \in QuadFaces }

QuadFiles ==
    { TextOf(vs \o ls) :
        vs \in QuadVertexLines,
        ls \in UNION { [1..n -> QuadFaceLines] : n \in 0..MaxFaces } }

InitNormals ==
    /\ scene = Scene(CameraFlat(4, 4, Fin(1, 10), Int2F(10)), <<WhiteLight>>, Models)
    /\ overflow_checks = FALSE
    /\ pixel_buffer = ClearedPixels(scene.camera)
    /\ depth_buffer = ClearedDepth(scene.camera)
    /\ drawn = <<>>
    /\ trace = <<>>
    /\ normals = <<>>
    /\ overflowed = FALSE
    /\ panicked = FALSE
    /\ image = Image(0, 0, <<>>)
    /\ file \in { Some(text) : text \in QuadFiles }
    /\ loaded = None
    /\ operands = None
    /\ outcome = None

\* Mesh::from_obj_file(path) on a file without normals
LoadQuad ==
    /\ file.some
    /\ ~loaded.some
    /\ loaded' = Some(from_obj_file(Disk @@ (ObjPath :> file.val), ObjPath, overflow_checks))
    /\ UNCHANGED <<scene, overflow_checks, pixel_buffer, depth_buffer, drawn, trace,
                   normals, overflowed, panicked, image, file, operands, outcome>>

NextNormals == LoadQuad

SpecNormals == InitNormals /\ [][NextNormals]_vars

\* The faces of the mesh that use the vertex t, as indices from 0.
FacesUsing(mesh, t) ==
    { fi \in 0..(Len(mesh.face_indicies) - 1) :
          \/ mesh.face_indicies[fi + 1].a = t
          \/ mesh.face_indicies[fi + 1].b = t
          \/ mesh.face_indicies[fi + 1].c = t }

\* The sum of the face normals of a set of faces.
RECURSIVE SumOfFaceNormals(_, _)
SumOfFaceNormals(mesh, faces) ==
    IF faces = {} THEN ORIGIN
    ELSE VAdd(FaceNormal(mesh, CHOOSE fi \in faces : TRUE),
              SumOfFaceNormals(mesh, faces \ { CHOOSE fi \in faces : TRUE }))

IsUnit(v) == dot(v, v) = One

\* The mesh has one normal per vertex.
OneNormalPerVertex(mesh) == Len(mesh.vertex_normals) = Len(mesh.verticies)

\* The normal of the vertex t is the sum of the normals of its faces scaled
\* to unit length, or the zero vector when no face uses the vertex or the
\* normals of its faces cancel.
NormalOfSum(mesh, t) ==
    IF SumOfFaceNormals(mesh, FacesUsing(mesh, t)) = ORIGIN
    THEN mesh.vertex_normals[t + 1] = ORIGIN
    ELSE /\ IsUnit(mesh.vertex_normals[t + 1])
         /\ \E length \in 1..Len(mesh.face_indicies) :
                mesh.vertex_normals[t + 1]
                    = VScale(SumOfFaceNormals(mesh, FacesUsing(mesh, t)), Fin(1, length))

\* A vertex whose faces wind the same way has the normal of those faces.
NormalOfFace(mesh, t) ==
    \A fi \in FacesUsing(mesh, t) :
        (\A fj \in FacesUsing(mesh, t) : FaceNormal(mesh, fj) = FaceNormal(mesh, fi))
            => mesh.vertex_normals[t + 1] = FaceNormal(mesh, fi)

LastFragments == FragmentTable[<<scene.camera, scene.lights, LastDrawn>>]

LastSetup(ti) ==
    TriangleSetup(LastDrawn.mesh, LastDrawn.mesh.face_indicies[ti], LastDrawn.transform,
                  NormalMatrix(LastDrawn.transform), scene.lights, scene.camera)

\* The NDC edge vectors edge0, edge1, edge2 of a triangle.
EdgesOf(S) == << VSub(S.ndc[3], S.ndc[2]), VSub(S.ndc[1], S.ndc[3]), VSub(S.ndc[2], S.ndc[1]) >>

\* A top edge (dy == 0 and dx > 0) or a left edge (dy > 0).
IsTopLeft(edge) == (FEq(edge.y, Zero) /\ FGt(edge.x, Zero)) \/ FGt(edge.y, Zero)

\* The pixel of the fragment f lies on an edge of its triangle, which has
\* an area, and on the inner side of the other edges.
OnAnEdge(f) ==
    /\ f.area # 0
    /\ \A k \in 1..3 : f.w[k] >= 0
    /\ \E k \in 1..3 : f.w[k] = 0

\* C26: a pixel whose edge function is exactly 0 for an edge passes the
\* inside test iff that edge is a top edge or a left edge; a pixel on an
\* edge that is neither is rejected.
C26_TopLeftRule ==
    (drawn # <<>> /\ ~overflowed /\ ~panicked) =>
        \A ti \in 1..Len(LastFragments) :
            \A fi \in 1..Len(LastFragments[ti].frags) :
                OnAnEdge(LastFragments[ti].frags[fi]) =>
                    (LastFragments[ti].frags[fi].inside
                        <=> \A k \in 1..3 :
                                LastFragments[ti].frags[fi].w[k] = 0
                                    => IsTopLeft(EdgesOf(LastSetup(ti))[k]))

\* The triangle t with its vertices in the reverse order.
ReversedTriangle(t) ==
    [t EXCEPT !.a = t.c, !.c = t.a,
              !.a_normal = t.c_normal, !.c_normal = t.a_normal,
              !.a_texture = t.c_texture, !.c_texture = t.a_texture]

ReversedMesh(mesh) ==
    [mesh EXCEPT !.face_indicies =
        Array([ti \in 1..Len(mesh.face_indicies) |-> ReversedTriangle(mesh.face_indicies[ti])])]

\* The pixels that pass the inside test of a triangle of the mesh.
CoveredPixels(triangles) ==
    UNION { { <<triangles[ti].frags[fi].x, triangles[ti].frags[fi].y>> :
                  fi \in { fj \in 1..Len(triangles[ti].frags) : triangles[ti].frags[fj].inside } } :
            ti \in 1..Len(triangles) }

\* C27: a triangle is rasterized whichever way it winds: the mesh that was
\* drawn covers the same pixels as the mesh with the vertex order of every
\* triangle reversed.
C27_WindingIndependent ==
    (drawn # <<>> /\ ~overflowed /\ ~panicked) =>
        CoveredPixels(LastFragments)
            = CoveredPixels(MeshFragments(ReversedMesh(LastDrawn.mesh), LastDrawn.transform,
                                          scene.lights, scene.camera))

\* The weights w0 / area, w1 / area, w2 / area of the fragment f.
WeightsOf(f) ==
    << FDiv(Int2F(f.w[1]), Int2F(f.area)), FDiv(Int2F(f.w[2]), Int2F(f.area)),
       FDiv(Int2F(f.w[3]), Int2F(f.area)) >>

\* The edge values of f sum to the area, and its weights are not negative
\* and sum to 1.
Barycentric(f) ==
    /\ f.w[1] + f.w[2] + f.w[3] = f.area
    /\ \A k \in 1..3 : FGe(WeightsOf(f)[k], Zero)
    /\ FEq(FAdd(FAdd(WeightsOf(f)[1], WeightsOf(f)[2]), WeightsOf(f)[3]), One)

NdcOf(model, v, cam) ==
    Mat4MulVec(Mat4Mul(cam.projection_mat, cam.view_mat),
               Mat4MulVec(model.transform, model.mesh.verticies[v + 1]))

\* The point lies in the canonical box [-1,1]^3.
InNdcBox(point) ==
    /\ FGe(point.x, FNeg(One)) /\ FLe(point.x, One)
    /\ FGe(point.y, FNeg(One)) /\ FLe(point.y, One)
    /\ FGe(point.z, FNeg(One)) /\ FLe(point.z, One)

\* C29: for a camera with 0 < near < far, a triangle that has at least one
\* vertex inside the canonical NDC box [-1,1]^3 passes the cull test and is
\* rasterized.
C29_CullOnlyOutsideBox ==
    (/\ drawn # <<>>
     /\ ~panicked
     /\ FLt(Zero, scene.camera.near_plane)
     /\ FLt(scene.camera.near_plane, scene.camera.far_plane))
    => \A ti \in 1..Len(LastFragments) :
           (\E v \in { LastDrawn.mesh.face_indicies[ti].a, LastDrawn.mesh.face_indicies[ti].b,
                       LastDrawn.mesh.face_indicies[ti].c } :
                InNdcBox(NdcOf(LastDrawn, v, scene.camera)))
               => LastFragments[ti].on_screen

\* ------------------------------------------------------------------------
\* OBJ files without texture coordinates
\* ------------------------------------------------------------------------

\* No line of the text is a `vt` line.
WithoutTexCoords(text) ==
    \A i \in 1..Len(lines(text)) :
        \/ split_whitespace(lines(text)[i]) = <<>>
        \/ split_whitespace(lines(text)[i])[1] # <<"v", "t">>

\* if mesh.texture.is_some() { ... }: draw_mesh samples the texture of the
\* mesh and indexes vertex_texture_coords.
TexturedBranch(mesh) == mesh.texture.some

\* C30: the mesh that from_obj_file returns for a file without `vt` lines
\* has exactly one entry in vertex_texture_coords and no texture, also when
\* the file names a material library, so draw_mesh does not take the
\* textured branch for it.
C30_NoTexCoordsNoTexture ==
    (loaded.some /\ loaded.val.ok /\ WithoutTexCoords(file.val)) =>
        /\ Len(loaded.val.val.vertex_texture_coords) = 1
        /\ ~TexturedBranch(loaded.val.val)

====
